---- MODULE Spec2Model ----
(***************************************************************************)
(* A state-machine model of the OmniLogistics API: the orders module      *)
(* (OrdersController / OrdersService over the `orders` table and the       *)
(* RabbitMQ channel resolved by RabbitMQProvider), the inventory module,   *)
(* the drivers module and the telemetry module, each over its own table.   *)
(*                                                                         *)
(* Every HTTP request on orders runs in a slot of `req`, every request on  *)
(* drivers in a slot of `dreq`.  A handler that awaits the store more than *)
(* once is one action per awaited statement, so that the statements of     *)
(* concurrent requests interleave as they do in the server.  A handler     *)
(* that issues one statement is one action and leaves its call in `last`.  *)
(***************************************************************************)
EXTENDS Integers, FiniteSets, Sequences, TLC

VARIABLES
    orders,     \* the orders table: id -> row, for the ids that are stored
    nextId,     \* next value of the BIGSERIAL sequence orders.id
    now,        \* the store's clock, NOW()
    channel,    \* the value injected as RABBITMQ_CONNECTION: "null", "open", "closed"
    brokerUp,   \* whether the broker is reachable at this moment
    queue,      \* messageIds handed to the broker queue orders_queue
    req,        \* the requests in flight: slot -> handler state
    calls,      \* requests accepted so far
    inventory,          \* the inventory table: id -> row
    nextItemId,         \* next value of the SERIAL sequence inventory.id
    drivers,            \* the drivers table: id -> row
    nextDriverId,       \* next value of the SERIAL sequence drivers.id
    dreq,               \* the requests on drivers in flight: slot -> handler state
    vehicle_telemetry,  \* the vehicle_telemetry table, in insertion order
    last                \* the latest single-statement call and its outcome

vars == <<orders, nextId, now, channel, brokerUp, queue, req, calls,
          inventory, nextItemId, drivers, nextDriverId, dreq,
          vehicle_telemetry, last>>

\* What a request on orders leaves alone.
elsewhere == <<inventory, nextItemId, drivers, nextDriverId, dreq,
               vehicle_telemetry, last>>

\* What a request on another module leaves alone.
orderVars == <<orders, nextId, channel, brokerUp, queue, req>>

---------------------------------------------------------------------------
(* Bounds of the model *)

MaxCalls == 2       \* requests accepted in one run
MaxTime == 1        \* ticks of the store's clock
MaxReq == 2         \* requests in flight at once

Req == 1..MaxReq

---------------------------------------------------------------------------
(* Values *)

OrderStatuses == {"pending", "queued", "processing", "completed", "failed"}

\* What a client may send as ?value= on PATCH /orders/:id/status: the query
\* parameter is an unvalidated string.
StatusValues == OrderStatuses \cup {"shipped"}

Fields == {"customerId", "driverId", "inventoryId", "quantity", "metadata"}
TextFields == {"customerId", "driverId", "inventoryId"}

\* The column each DTO field is written to.
Column(f) ==
    CASE f = "customerId"  -> "customer_id"
      [] f = "driverId"    -> "driver_id"
      [] f = "inventoryId" -> "inventory_id"
      [] f = "quantity"    -> "quantity"
      [] f = "metadata"    -> "metadata"

NullRow ==
    [id |-> 0, customer_id |-> "", driver_id |-> "", inventory_id |-> "",
     quantity |-> 0, status |-> "", metadata |-> "", created_at |-> 0,
     updated_at |-> 0]

\* A request body.  `present` holds the fields that are not undefined; an
\* absent field carries a placeholder that no handler reads.
Dto(present, c, d, i, q, m) ==
    [present |-> present, customerId |-> c, driverId |-> d, inventoryId |-> i,
     quantity |-> q, metadata |-> m]

NoDto == Dto({}, "", "", "", 0, "")

\* POST /orders bodies: every identifier and the quantity are sent, the
\* metadata is optional; at most one field is invalid.
Defects(dto) ==
    Cardinality({f \in TextFields : dto[f] = ""})
        + (IF dto.quantity <= 0 THEN 1 ELSE 0)

CreateDtos ==
    { dto \in
        { Dto(p, c, d, i, q, IF "metadata" \in p THEN "{p:1}" ELSE "") :
            p \in {Fields \ {"metadata"}, Fields},
            c \in {"a", ""}, d \in {"a", ""}, i \in {"a", ""},
            q \in {-1, 0, 1} } :
        Defects(dto) <= 1 }

\* PATCH /orders/:id bodies, by the fields they carry: none, each field
\* alone, two fields, all five.  A field that is sent carries a new value.
UpdateBodies ==
    {{}} \cup {{f} : f \in Fields} \cup {{"customerId", "quantity"}, Fields}

UpdateDtos ==
    { Dto(p,
          IF "customerId" \in p THEN "b" ELSE "",
          IF "driverId" \in p THEN "b" ELSE "",
          IF "inventoryId" \in p THEN "b" ELSE "",
          IF "quantity" \in p THEN 7 ELSE 0,
          IF "metadata" \in p THEN "{q:2}" ELSE "") :
        p \in UpdateBodies }

---------------------------------------------------------------------------
(* Responses *)

RowResult(row) == [kind |-> "row", row |-> row]
Outcome(k) == [kind |-> k, row |-> NullRow]

NotFound == Outcome("NotFound")               \* NotFoundException, HTTP 404
ValidationError == Outcome("ValidationError") \* BadRequestException, HTTP 400
ServerError == Outcome("ServerError")         \* any other rejection, HTTP 500
UndefinedResult == Outcome("undefined")       \* the handler resolved to undefined
NullResult == Outcome("null")
Deleted == Outcome("deleted")                 \* { deleted: true }
Stats == Outcome("stats")                     \* { queue, messageCount, consumerCount }
Pending == Outcome("none")                    \* no response yet

Idle ==
    [op |-> "idle", pc |-> "idle", id |-> 0, dto |-> NoDto, value |-> "",
     order |-> NullRow, pub |-> "none", result |-> Pending]

---------------------------------------------------------------------------
(* The HTTP layer *)

\* The pipes bootstrap() registers on the application: none.  The
\* class-validator decorators of a DTO run only inside a ValidationPipe.
GlobalPipes == {}

\* What the decorators of CreateOrderDto require.
CreateOrderDtoValid(dto) ==
    /\ \A f \in TextFields : dto[f] # ""      \* @IsString() @IsNotEmpty()
    /\ dto.quantity > 0                       \* @IsNumber() @IsPositive()

\* Whether @Body() hands the body to OrdersController.create.
BodyAccepted(dto) ==
    "ValidationPipe" \in GlobalPipes => CreateOrderDtoValid(dto)

---------------------------------------------------------------------------
(* The store: the orders table *)

\* CHECK (quantity > 0)
CheckQuantity(q) == q > 0

\* CHECK (status IN ('pending','queued','processing','completed','failed'))
CheckStatusMutantNone(s) == TRUE

CheckStatus(s) == s \in OrderStatuses

\* dto.metadata ?? {} , serialised and cast to jsonb
MetadataOrEmpty(dto) == IF "metadata" \in dto.present THEN dto.metadata ELSE "{}"

\* The inserted row when its id is the value the sequence handed out before.
InsertedRowMutantLastId(id, dto, t) ==
    [id |-> IF id > 1 THEN id - 1 ELSE id,
     customer_id |-> dto.customerId, driver_id |-> dto.driverId,
     inventory_id |-> dto.inventoryId, quantity |-> dto.quantity,
     status |-> "pending", metadata |-> MetadataOrEmpty(dto),
     created_at |-> t, updated_at |-> t]

\* The row INSERT INTO orders ... RETURNING * yields: status 'pending', both
\* timestamps DEFAULT NOW(), the id from the sequence.
InsertedRow(id, dto, t) ==
    [id |-> id, customer_id |-> dto.customerId, driver_id |-> dto.driverId,
     inventory_id |-> dto.inventoryId, quantity |-> dto.quantity,
     status |-> "pending", metadata |-> MetadataOrEmpty(dto),
     created_at |-> t, updated_at |-> t]

\* Whether the INSERT of create commits: the row has to pass the CHECKs.
InsertCommits(dto) == CheckQuantity(dto.quantity)

\* BEFORE UPDATE trigger trg_orders_updated_at: NEW.updated_at = NOW()
orders_set_updated_at(row, t) == [row EXCEPT !.updated_at = t]

\* UPDATE orders SET status = <s>, updated_at = NOW() on one row
SetStatusMutantForwardOnly(row, s, t) ==
    LET Stage(x) == CASE x = "pending" -> 0
                      [] x = "queued" -> 1
                      [] x = "processing" -> 2
                      [] OTHER -> 3
    IN IF Stage(s) < Stage(row.status)
       THEN row
       ELSE orders_set_updated_at([row EXCEPT !.status = s, !.updated_at = t], t)

SetStatus(row, s, t) ==
    orders_set_updated_at([row EXCEPT !.status = s, !.updated_at = t], t)

Stored(id) == id \in DOMAIN orders

WithRow(row) == [i \in DOMAIN orders \cup {row.id} |-> IF i = row.id THEN row ELSE orders[i]]

WithoutRow(id) == [i \in DOMAIN orders \ {id} |-> orders[i]]

---------------------------------------------------------------------------
(* The broker *)

\* The provider's factory, run once when the module is created: the channel
\* when connect / createChannel / assertQueue succeed, null when one throws.
RabbitMQProvider(reachable) == IF reachable THEN "open" ELSE "null"

\* channel.sendToQueue on a Channel object: on an open channel the message is
\* written to the channel and the call returns true, or false when the
\* channel's write buffer is full; on a closed channel the call throws.
SendOutcomes(ch) == IF ch = "open" THEN {"true", "false"} ELSE {"throw"}

\* publishToQueue: "nochannel" and "threw" are the two ways it returns false
\* without a message; otherwise it returns what sendToQueue returned.
PublishMutantNoCatch(ch, send) ==
    IF ch = "null" THEN "nochannel"
    ELSE IF send = "throw" THEN "uncaught"
    ELSE send

publishToQueue(ch, send) ==
    IF ch = "null" THEN "nochannel"
    ELSE IF send = "throw" THEN "threw"
    ELSE send

\* Whether the call wrote a message to the channel.
MessageSent(pub) == pub \in {"true", "false"}

---------------------------------------------------------------------------
(* Values shared by the inventory, drivers and telemetry modules *)

\* A text is a sequence of characters.  A nullable column and an optional
\* argument hold Null or Some(v).
Null == << >>
Some(v) == <<v>>
IsNull(x) == x = Null
ValueOf(x) == x[1]

\* Outcomes of a service call, as the HTTP layer answers them.
ItemResult(row) == [kind |-> "item", item |-> row]
RowsResult(rows) == [kind |-> "rows", rows |-> rows]
NotFoundResult == [kind |-> "NotFound"]
ValidationErrorResult == [kind |-> "ValidationError"]
ServerErrorResult == [kind |-> "ServerError"]
UndefinedAnswer == [kind |-> "undefined"]

Min(a, b) == IF a <= b THEN a ELSE b

\* The orderings of the set S.
Orderings(S) ==
    {s \in [1..Cardinality(S) -> S] : \A i, j \in 1..Cardinality(S) : i # j => s[i] # s[j]}

\* ORDER BY key DESC, key being the sort column as a function of the row:
\* the orderings of S the store may produce; rows with equal keys come in
\* any order.
OrderByDesc(S, key) ==
    {s \in Orderings(S) : \A i \in 1..(Len(s) - 1) : key[s[i]] >= key[s[i + 1]]}

\* ORDER BY key ASC
OrderByAsc(S, key) ==
    {s \in Orderings(S) : \A i \in 1..(Len(s) - 1) : key[s[i]] <= key[s[i + 1]]}

\* LIMIT n
Limit(s, n) == SubSeq(s, 1, Min(n, Len(s)))

---------------------------------------------------------------------------
(* Inventory: values and the search functions of the store *)

InventoryFields == {"name", "description", "metadata"}

\* Names, descriptions and queries are made of the word "p", its plural
\* "ps", the word "hp" that contains "p", the word "h" and the empty text.
Queries == {<< >>, <<"p">>, <<"h">>, <<"p", "s">>}

\* Embeddings are unit vectors (of 1536 components in the schema, drawn
\* here from a plane).
Vectors == {<<1, 0>>, <<0, 1>>}
QueryEmbeddings == {Null} \cup {Some(v) : v \in Vectors \cup {<<-1, 0>>}}
Limits == {1, 3}

\* The body of POST /inventory and PUT /inventory/:id.
InventoryDto(present, name, description, metadata) ==
    [present |-> present, name |-> name, description |-> description,
     metadata |-> metadata]

NoInventoryDto == InventoryDto({}, << >>, << >>, "")

\* CreateInventoryDto carries no class-validator decorator.
CreateInventoryDtoValid(dto) == TRUE

InventoryBodyAccepted(dto) ==
    "ValidationPipe" \in GlobalPipes => CreateInventoryDtoValid(dto)

InventoryBodies == {{}, {"name"}, {"description"}, {"metadata"}, InventoryFields}

InventoryDtos ==
    {InventoryDto(p, n, IF "description" \in p THEN <<"h">> ELSE << >>,
                  IF "metadata" \in p THEN "{sku:1}" ELSE "")
        : p \in InventoryBodies, n \in {<< >>, <<"h", "p">>}}
    \ {InventoryDto(p, <<"h", "p">>, d, m)
            : p \in SUBSET {"description", "metadata"}, d \in {<< >>, <<"h">>},
              m \in {"", "{sku:1}"}}

\* A row of table inventory.
InventoryRow(id, name, description, metadata, embedding, t) ==
    [id |-> id, name |-> name, description |-> description,
     metadata |-> metadata, embedding |-> embedding, created_at |-> t]

\* returning(['id', 'name', 'description', 'metadata', 'created_at'])
Returning(row) ==
    [id |-> row.id, name |-> row.name, description |-> row.description,
     metadata |-> row.metadata, created_at |-> row.created_at]

\* The words of a text, split at spaces; `w` is the word in progress.
RECURSIVE Split(_, _)
Split(t, w) ==
    IF t = << >>
    THEN IF w = << >> THEN << >> ELSE <<w>>
    ELSE IF Head(t) = " "
    THEN (IF w = << >> THEN << >> ELSE <<w>>) \o Split(Tail(t), << >>)
    ELSE Split(Tail(t), Append(w, Head(t)))

Words(t) == Split(t, << >>)

\* The 'english' configuration reduces a word to its stem: a plural loses
\* its s.
Stem(w) ==
    IF Len(w) > 1 /\ w[Len(w)] = "s" THEN SubSeq(w, 1, Len(w) - 1) ELSE w

\* to_tsvector('english', t): the stems of the words of t
to_tsvector(t) == {Stem(Words(t)[i]) : i \in 1..Len(Words(t))}

\* plainto_tsquery('english', q): the conjunction of the stems of q
plainto_tsquery(q) == to_tsvector(q)

\* coalesce(name, '') || ' ' || coalesce(description, '')
Document(row) ==
    row.name \o <<" ">> \o (IF IsNull(row.description) THEN << >>
                            ELSE ValueOf(row.description))

\* tsvector @@ tsquery: every stem of the query occurs; a query without a
\* lexeme matches nothing.
TsMatch(row, q) ==
    /\ plainto_tsquery(q) # {}
    /\ plainto_tsquery(q) \subseteq to_tsvector(Document(row))

\* ts_rank(tsvector, tsquery): grows with the occurrences of the query's
\* stems, 0 without one.
ts_rank(row, q) ==
    Cardinality({i \in 1..Len(Words(Document(row))) :
                    Stem(Words(Document(row))[i]) \in plainto_tsquery(q)})

\* name ILIKE '%' || q || '%'
ILike(name, q) ==
    \E i \in 0..(Len(name) - Len(q)) : SubSeq(name, i + 1, i + Len(q)) = q

\* 1 - (embedding <=> v) for unit vectors: their inner product
cosine_score(a, b) == a[1] * b[1] + a[2] * b[2]

---------------------------------------------------------------------------
(* Drivers: values and the geography functions of the store *)

DriverFields == {"name", "status", "location"}

\* Coordinates and distances are counted in tenths of a metre of ground:
\* the points of the model lie on one meridian near the equator.
Latitudes == {0, 6, 20}
Longitudes == {0}

\* ST_SetSRID(ST_MakePoint(x, y), 4326)::geography
ST_MakePoint(x, y) == [lon |-> x, lat |-> y]

Points == {ST_MakePoint(x, y) : x \in Longitudes, y \in Latitudes}

Abs(n) == IF n < 0 THEN -n ELSE n

\* ST_Distance(a, b) on geography, in tenths of a metre
ST_Distance(a, b) == Abs(a.lat - b.lat) + Abs(a.lon - b.lon)

\* ST_DWithin(a, b, radius): the distance is at most the radius
ST_DWithin(a, b, radius) == ST_Distance(a, b) <= radius

\* <double precision>::int, from tenths to whole metres: the nearest
\* integer, a tie going to the even one.
ToInt(d) ==
    LET whole == d \div 10
        rest == d % 10
    IN IF rest < 5 THEN whole
       ELSE IF rest > 5 THEN whole + 1
       ELSE IF whole % 2 = 0 THEN whole ELSE whole + 1

\* The radii a request may name, in tenths of a metre: 0.7 m, 1 m, 2 m.
Radii == {7, 10, 20}

\* The body of POST /drivers and PATCH /drivers/:id; location is {lat, lon}.
DriverDto(present, name, status, location) ==
    [present |-> present, name |-> name, status |-> status,
     location |-> location]

NoDriverDto == DriverDto({}, << >>, "", [lat |-> 0, lon |-> 0])

\* The statuses the DTO's type annotation names, and one it does not: the
\* annotation is erased at run time and no pipe validates the body.
DriverStatuses == {"online", "offline", "busy"}

BodyStatuses == {"busy", "away"}

DriverDtos ==
    {DriverDto(p, IF "name" \in p THEN <<"b">> ELSE << >>,
               IF "status" \in p THEN s ELSE "",
               IF "location" \in p THEN [lat |-> 6, lon |-> 0]
                                    ELSE [lat |-> 0, lon |-> 0])
        : p \in SUBSET DriverFields, s \in BodyStatuses}

\* A row of table drivers; location is Null or Some(point).
DriverRow(id, name, status, location) ==
    [id |-> id, name |-> name, status |-> status, location |-> location]

\* A request on drivers that is not running.
DIdle == [op |-> "idle", pc |-> "idle", id |-> 0, dto |-> NoDriverDto]

---------------------------------------------------------------------------
(* Telemetry: values and the time functions of the store *)

Vehicles == {"v1", "v2"}

\* The body of POST /telemetry; speed and time are Null when omitted.
TelemetryDto(vehicle_id, speed, time) ==
    [vehicle_id |-> vehicle_id, speed |-> speed, time |-> time]

\* Times are counted in hours from the start of the application.
TelemetryDtos ==
    {TelemetryDto("v1", Some(4), Null), TelemetryDto("v1", Some(4), Some(1)),
     TelemetryDto("v1", Null, Some(0)), TelemetryDto("v2", Some(7), Null)}

\* A row of table vehicle_telemetry.
Reading(time, vehicle_id, speed) ==
    [time |-> time, vehicle_id |-> vehicle_id, speed |-> speed,
     battery_level |-> Null, temperature |-> Null, location |-> Null]

\* Bucket widths a request may name, in hours.
BucketWidths == {1, 2}

\* time_bucket(width, t): the start of the bucket of t
time_bucket(width, t) == t - (t % width)

\* Date.now() - 86_400_000, in hours
DayBefore(t) == t - 24

\* A single-statement call that has not been made.
NoCall == [op |-> "none", result |-> [kind |-> "none"], at |-> 0]

---------------------------------------------------------------------------
(* Initial state: the application after NestFactory.create(AppModule) *)

\* No row in the tables of the other modules, no request on them.
NoInventory == inventory = << >> /\ nextItemId = 1
NoDrivers == drivers = << >> /\ nextDriverId = 1 /\ dreq = [r \in Req |-> DIdle]
NoTelemetry == vehicle_telemetry = << >>
EmptyElsewhere == NoInventory /\ NoDrivers /\ NoTelemetry /\ last = NoCall

Init ==
    /\ orders = << >>
    /\ nextId = 1
    /\ now = 0
    /\ brokerUp \in BOOLEAN
    /\ channel = RabbitMQProvider(brokerUp)
    /\ queue = {}
    /\ req = [r \in Req |-> Idle]
    /\ calls = 0
    /\ EmptyElsewhere

\* The store as a restarted deployment finds it: holding an order placed
\* before this process started, in any status.
PlacedBefore(s) ==
    [InsertedRow(1, Dto(Fields \ {"metadata"}, "a", "a", "a", 1, ""), 0)
        EXCEPT !.status = s]

InitPlaced ==
    /\ \E s \in OrderStatuses : orders = (1 :> PlacedBefore(s))
    /\ nextId = 2
    /\ now = 0
    /\ brokerUp \in BOOLEAN
    /\ channel = RabbitMQProvider(brokerUp)
    /\ queue = {}
    /\ req = [r \in Req |-> Idle]
    /\ calls = 0
    /\ EmptyElsewhere

\* A slot is free before its first request and once its response is out; a
\* request is served in the first free slot.
Responded(r) == req[r].pc \in {"idle", "done"}

Free(r) ==
    /\ Responded(r)
    /\ \A q \in Req : q < r => ~Responded(q)

Set(r, rec) == req' = [req EXCEPT ![r] = rec]

Finish(r, result) == Set(r, [req[r] EXCEPT !.pc = "done", !.result = result])

---------------------------------------------------------------------------
(* POST /orders : OrdersService.create *)

\* Where create continues after the awaited INSERT: on to the publish when it
\* resolved, out of the handler when it rejected.
CreateAfterInsertMutantSwallow(committed) == "publish"

CreateAfterInsert(committed) == IF committed THEN "publish" ELSE "done"

\* Step 1: the INSERT.  The sequence value is consumed whether or not the
\* row passes the CHECKs.
CreateInsert(r, dto) ==
    /\ Free(r)
    /\ calls < MaxCalls
    /\ calls' = calls + 1
    /\ IF ~BodyAccepted(dto)
       THEN /\ Set(r, [Idle EXCEPT !.op = "create", !.pc = "done", !.dto = dto,
                                    !.result = ValidationError])
            /\ UNCHANGED <<orders, nextId>>
       ELSE LET row == InsertedRow(nextId, dto, now)
                ok == InsertCommits(dto)
            IN /\ nextId' = nextId + 1
               /\ orders' = IF ok THEN WithRow(row) ELSE orders
               /\ Set(r, [Idle EXCEPT !.op = "create", !.dto = dto,
                                       !.pc = CreateAfterInsert(ok),
                                       !.order = IF ok THEN row ELSE NullRow,
                                       !.result = IF CreateAfterInsert(ok) = "done"
                                                  THEN ServerError ELSE Pending])
    /\ UNCHANGED <<now, channel, brokerUp, queue, elsewhere>>

\* Step 2: publishToQueue(order), synchronous, then the branch on its result.
CreatePublish(r) ==
    /\ req[r].pc = "publish"
    /\ \E send \in SendOutcomes(channel) :
         LET pub == publishToQueue(channel, send)
         IN /\ queue' = IF channel # "null" /\ MessageSent(send)
                         THEN queue \cup {req[r].order.id} ELSE queue
            /\ Set(r, CASE pub = "true" ->
                              [req[r] EXCEPT !.pub = pub, !.pc = "mark"]
                         [] pub = "uncaught" ->
                              [req[r] EXCEPT !.pub = pub, !.pc = "done",
                                             !.result = ServerError]
                         [] OTHER ->
                              [req[r] EXCEPT !.pub = pub, !.pc = "done",
                                             !.result = RowResult(req[r].order)])
    /\ UNCHANGED <<orders, nextId, now, channel, brokerUp, calls, elsewhere>>

\* Step 3: UPDATE orders SET status = 'queued' ... WHERE id = order.id
\* RETURNING *; the handler returns the first returned row, if any.
CreateMark(r) ==
    /\ req[r].pc = "mark"
    /\ LET id == req[r].order.id
       IN IF Stored(id)
          THEN LET updated == SetStatus(orders[id], "queued", now)
               IN /\ orders' = WithRow(updated)
                  /\ Finish(r, RowResult(updated))
          ELSE /\ orders' = orders
               /\ Finish(r, UndefinedResult)
    /\ UNCHANGED <<nextId, now, channel, brokerUp, queue, calls, elsewhere>>

---------------------------------------------------------------------------
(* GET /orders/:id : OrdersService.findOne *)

\* SELECT * FROM orders WHERE id = <id>; NotFoundException without a row.
findOne(id) == IF Stored(id) THEN RowResult(orders[id]) ELSE NotFound

FindOne(r, id) ==
    /\ Free(r)
    /\ calls < MaxCalls
    /\ calls' = calls + 1
    /\ Set(r, [Idle EXCEPT !.op = "findOne", !.pc = "done", !.id = id,
                           !.result = findOne(id)])
    /\ UNCHANGED <<orders, nextId, now, channel, brokerUp, queue, elsewhere>>

---------------------------------------------------------------------------
(* PATCH /orders/:id : OrdersService.update *)

\* fields.length === 0: the handler returns findOne(id) and writes nothing.
UpdateSkipsWriteMutantOneField(dto) == Cardinality(dto.present) <= 1

UpdateSkipsWrite(dto) == Cardinality(dto.present) = 0

\* The statement update() compiles.  setClauses is spliced in as raw text
\* "<col> = $1, <col> = $2, ..." and the array `values` is never bound: the
\* only bound parameter is the id of the WHERE clause, which the template
\* numbers $1 as well.  The store rejects the statement when it refers to a
\* parameter that was not supplied ($2 and up) or when $1, a bigint, cannot
\* be assigned to the column (jsonb).
UpdateRejected(dto) ==
    \/ Cardinality(dto.present) > 1
    \/ "metadata" \in dto.present

\* What <col> = $1 assigns: the id, cast to the column's type.
BoundParameter(f, id) == IF f \in TextFields THEN ToString(id) ELSE id

\* The row after UPDATE orders SET <setClauses>, updated_at = NOW().
UpdatedRow(row, dto, t) ==
    orders_set_updated_at(
        [c \in DOMAIN row |->
            IF \E f \in dto.present : Column(f) = c
            THEN BoundParameter(CHOOSE f \in dto.present : Column(f) = c, row.id)
            ELSE IF c = "updated_at" THEN t ELSE row[c]], t)

\* Step 1: the 404 guard, then the collection of the fields present.
UpdateFind(r, id, dto) ==
    /\ Free(r)
    /\ calls < MaxCalls
    /\ calls' = calls + 1
    /\ LET started == [Idle EXCEPT !.op = "update", !.id = id, !.dto = dto]
       IN IF ~Stored(id)
          THEN Set(r, [started EXCEPT !.pc = "done", !.result = NotFound])
          ELSE Set(r, [started EXCEPT !.pc = IF UpdateSkipsWrite(dto)
                                             THEN "refind" ELSE "write"])
    /\ UNCHANGED <<orders, nextId, now, channel, brokerUp, queue, elsewhere>>

\* Step 2, no field present: return this.findOne(id)
UpdateRefind(r) ==
    /\ req[r].pc = "refind"
    /\ Finish(r, findOne(req[r].id))
    /\ UNCHANGED <<orders, nextId, now, channel, brokerUp, queue, calls, elsewhere>>

\* Step 2, some field present: the UPDATE ... RETURNING *
UpdateWrite(r) ==
    /\ req[r].pc = "write"
    /\ req[r].op = "update"
    /\ LET id == req[r].id
       IN IF UpdateRejected(req[r].dto)
          THEN /\ orders' = orders
               /\ Finish(r, ServerError)
          ELSE IF Stored(id)
          THEN LET updated == UpdatedRow(orders[id], req[r].dto, now)
               IN /\ orders' = WithRow(updated)
                  /\ Finish(r, RowResult(updated))
          ELSE /\ orders' = orders
               /\ Finish(r, UndefinedResult)
    /\ UNCHANGED <<nextId, now, channel, brokerUp, queue, calls, elsewhere>>

---------------------------------------------------------------------------
(* PATCH /orders/:id/status?value= : OrdersService.updateStatus *)

\* Step 1: the 404 guard.
StatusFind(r, id, value) ==
    /\ Free(r)
    /\ calls < MaxCalls
    /\ calls' = calls + 1
    /\ LET started == [Idle EXCEPT !.op = "updateStatus", !.id = id, !.value = value]
       IN IF ~Stored(id)
          THEN Set(r, [started EXCEPT !.pc = "done", !.result = NotFound])
          ELSE Set(r, [started EXCEPT !.pc = "write"])
    /\ UNCHANGED <<orders, nextId, now, channel, brokerUp, queue, elsewhere>>

\* Step 2: UPDATE orders SET status = <value>, updated_at = NOW() WHERE id =
\* <id> RETURNING *.  The CHECK is evaluated on the row that is written.
StatusWrite(r) ==
    /\ req[r].pc = "write"
    /\ req[r].op = "updateStatus"
    /\ LET id == req[r].id
       IN IF ~Stored(id)
          THEN /\ orders' = orders
               /\ Finish(r, UndefinedResult)
          ELSE LET updated == SetStatus(orders[id], req[r].value, now)
               IN IF CheckStatus(updated.status)
                  THEN /\ orders' = WithRow(updated)
                       /\ Finish(r, RowResult(updated))
                  ELSE /\ orders' = orders
                       /\ Finish(r, ServerError)
    /\ UNCHANGED <<nextId, now, channel, brokerUp, queue, calls, elsewhere>>

---------------------------------------------------------------------------
(* DELETE /orders/:id : OrdersService.remove *)

RemoveFind(r, id) ==
    /\ Free(r)
    /\ calls < MaxCalls
    /\ calls' = calls + 1
    /\ LET started == [Idle EXCEPT !.op = "remove", !.id = id]
       IN IF ~Stored(id)
          THEN Set(r, [started EXCEPT !.pc = "done", !.result = NotFound])
          ELSE Set(r, [started EXCEPT !.pc = "delete"])
    /\ UNCHANGED <<orders, nextId, now, channel, brokerUp, queue, elsewhere>>

\* DELETE FROM orders WHERE id = <id>, then { deleted: true }
RemoveDelete(r) ==
    /\ req[r].pc = "delete"
    /\ orders' = WithoutRow(req[r].id)
    /\ Finish(r, Deleted)
    /\ UNCHANGED <<nextId, now, channel, brokerUp, queue, calls, elsewhere>>

---------------------------------------------------------------------------
(* GET /orders/queue-stats : OrdersService.queueStats *)

\* null without a channel; otherwise what channel.checkQueue resolves to, and
\* its rejection (a closed channel) is not caught.
queueStats(ch) ==
    IF ch = "null" THEN NullResult
    ELSE IF ch = "open" THEN Stats
    ELSE ServerError

QueueStats(r) ==
    /\ Free(r)
    /\ calls < MaxCalls
    /\ calls' = calls + 1
    /\ Set(r, [Idle EXCEPT !.op = "queueStats", !.pc = "done",
                           !.result = queueStats(channel)])
    /\ UNCHANGED <<orders, nextId, now, channel, brokerUp, queue, elsewhere>>

---------------------------------------------------------------------------
(* The environment *)

Tick ==
    /\ now < MaxTime
    /\ now' = now + 1
    /\ UNCHANGED <<orders, nextId, channel, brokerUp, queue, req, calls, elsewhere>>

\* The broker becomes unreachable: an open channel is closed by the
\* connection loss.
BrokerDown ==
    /\ brokerUp
    /\ brokerUp' = FALSE
    /\ channel' = IF channel = "open" THEN "closed" ELSE channel
    /\ UNCHANGED <<orders, nextId, now, queue, req, calls, elsewhere>>

BrokerRecoverMutantReconnects ==
    /\ ~brokerUp
    /\ brokerUp' = TRUE
    /\ channel' = RabbitMQProvider(TRUE)
    /\ UNCHANGED <<orders, nextId, now, queue, req, calls, elsewhere>>

\* The broker is reachable again.  The provider's factory is not run again:
\* the injected value stays what it was.
BrokerRecover ==
    /\ ~brokerUp
    /\ brokerUp' = TRUE
    /\ UNCHANGED <<orders, nextId, now, channel, queue, req, calls, elsewhere>>

---------------------------------------------------------------------------

\* The ids a request may name: those the sequence has handed out, and the
\* next one, which no row has.
OrderIds == 1..nextId

\* The slot the next request is served in, if there is one.
FreeSlots == {r \in Req : Free(r)}

\* POST /orders bodies that pass the decorators of CreateOrderDto.
ValidDtos == {dto \in CreateDtos : CreateOrderDtoValid(dto)}

\* Requests that every workload below serves.
Create(dtos) ==
    \/ \E r \in FreeSlots, dto \in dtos : CreateInsert(r, dto)
    \/ \E r \in Req : CreatePublish(r)
    \/ \E r \in Req : CreateMark(r)

Remove ==
    \/ \E r \in FreeSlots, id \in OrderIds : RemoveFind(r, id)
    \/ \E r \in Req : RemoveDelete(r)

Update ==
    \/ \E r \in FreeSlots, id \in OrderIds, dto \in UpdateDtos : UpdateFind(r, id, dto)
    \/ \E r \in Req : UpdateRefind(r)
    \/ \E r \in Req : UpdateWrite(r)

UpdateStatus ==
    \/ \E r \in FreeSlots, id \in OrderIds, value \in StatusValues : StatusFind(r, id, value)
    \/ \E r \in Req : StatusWrite(r)

\* Order placement against a broker that comes and goes: any body on POST
\* /orders, deletions, queue statistics.
NextCreate ==
    \/ Create(CreateDtos)
    \/ Remove
    \/ \E r \in FreeSlots : QueueStats(r)
    \/ BrokerDown
    \/ BrokerRecover

SpecCreate == Init /\ [][NextCreate]_vars

\* Field updates of placed orders, with reads and deletions, as time passes.
NextUpdate ==
    \/ Create(ValidDtos)
    \/ Update
    \/ \E r \in FreeSlots, id \in OrderIds : FindOne(r, id)
    \/ Remove
    \/ Tick

SpecUpdate == Init /\ [][NextUpdate]_vars

\* Status callbacks on placed orders, with deletions, as time passes.
NextStatus ==
    \/ UpdateStatus
    \/ Remove
    \/ Tick

SpecStatus == InitPlaced /\ [][NextStatus]_vars

\* Every request of the orders module, against the broker as it was at startup.
Next ==
    \/ Create(CreateDtos)
    \/ Update
    \/ UpdateStatus
    \/ Remove
    \/ \E r \in FreeSlots, id \in OrderIds : FindOne(r, id)
    \/ \E r \in FreeSlots : QueueStats(r)

Spec == Init /\ [][Next]_vars

---------------------------------------------------------------------------
(* The inventory module : InventoryController / InventoryService *)

ItemStored(id) == id \in DOMAIN inventory

WithItem(row) ==
    [i \in DOMAIN inventory \cup {row.id} |-> IF i = row.id THEN row ELSE inventory[i]]

WithoutItem(id) == [i \in DOMAIN inventory \ {id} |-> inventory[i]]

\* A call on the inventory service and what it answered; `at` is the number
\* of requests the server had accepted when it answered.
InventoryCall(op, id, dto, query, embedding, limit, result) ==
    [op |-> op, id |-> id, dto |-> dto, query |-> query,
     embedding |-> embedding, limit |-> limit, result |-> result,
     at |-> calls']

\* One request is accepted.
Accepted == calls < MaxCalls /\ calls' = calls + 1

\* POST /inventory.  insertInto('inventory').values({name, description,
\* metadata}): a name that is undefined is left out of the statement and the
\* NOT NULL column rejects the row; the sequence value is consumed either way.
InventoryCreate(dto) ==
    /\ Accepted
    /\ IF ~InventoryBodyAccepted(dto)
       THEN /\ last' = InventoryCall("create", 0, dto, << >>, Null, 0,
                                     ValidationErrorResult)
            /\ UNCHANGED <<inventory, nextItemId>>
       ELSE LET row == InventoryRow(nextItemId, dto.name,
                           IF "description" \in dto.present
                           THEN Some(dto.description) ELSE Null,
                           IF "metadata" \in dto.present
                           THEN dto.metadata ELSE "{}",
                           Null, now)
                ok == "name" \in dto.present
            IN /\ nextItemId' = nextItemId + 1
               /\ inventory' = IF ok THEN WithItem(row) ELSE inventory
               /\ last' = InventoryCall("create", 0, dto, << >>, Null, 0,
                              IF ok THEN ItemResult(Returning(row))
                              ELSE ServerErrorResult)
    /\ UNCHANGED <<orderVars, now, drivers, nextDriverId, dreq, vehicle_telemetry>>

\* InventoryService.findOne, and the controller's 404 when it is undefined.
InventoryFindOne(id) ==
    IF ItemStored(id) THEN ItemResult(Returning(inventory[id])) ELSE NotFoundResult

InventoryGet(id) ==
    /\ Accepted
    /\ last' = InventoryCall("findOne", id, NoInventoryDto, << >>, Null, 0,
                             InventoryFindOne(id))
    /\ UNCHANGED <<orderVars, now, inventory, nextItemId, drivers, nextDriverId,
                   dreq, vehicle_telemetry>>

\* updateData: the fields of the body that are not undefined.
UpdateData(dto) == dto.present

\* updateTable('inventory').set(updateData): the row with the fields of
\* updateData written.
ItemUpdated(row, dto) ==
    [row EXCEPT
        !.name = IF "name" \in UpdateData(dto) THEN dto.name ELSE @,
        !.description = IF "description" \in UpdateData(dto)
                        THEN Some(dto.description) ELSE @,
        !.metadata = IF "metadata" \in UpdateData(dto) THEN dto.metadata ELSE @]

\* PUT /inventory/:id.  With an empty updateData the statement compiles to
\* "update inventory set where id = $1 ..." and the store rejects it.
InventoryUpdate(id, dto) ==
    /\ Accepted
    /\ IF UpdateData(dto) = {}
       THEN /\ inventory' = inventory
            /\ last' = InventoryCall("update", id, dto, << >>, Null, 0,
                                     ServerErrorResult)
       ELSE IF ItemStored(id)
       THEN LET updated == ItemUpdated(inventory[id], dto)
            IN /\ inventory' = WithItem(updated)
               /\ last' = InventoryCall("update", id, dto, << >>, Null, 0,
                                        ItemResult(Returning(updated)))
       ELSE /\ inventory' = inventory
            /\ last' = InventoryCall("update", id, dto, << >>, Null, 0,
                                     NotFoundResult)
    /\ UNCHANGED <<orderVars, now, nextItemId, drivers, nextDriverId, dreq,
                   vehicle_telemetry>>

\* DELETE /inventory/:id
InventoryRemove(id) ==
    /\ Accepted
    /\ IF ItemStored(id)
       THEN /\ inventory' = WithoutItem(id)
            /\ last' = InventoryCall("remove", id, NoInventoryDto, << >>, Null, 0,
                           [kind |-> "deleted", id |-> id,
                            name |-> inventory[id].name])
       ELSE /\ inventory' = inventory
            /\ last' = InventoryCall("remove", id, NoInventoryDto, << >>, Null, 0,
                                     NotFoundResult)
    /\ UNCHANGED <<orderVars, now, nextItemId, drivers, nextDriverId, dreq,
                   vehicle_telemetry>>

\* The rows of search(): a text-search match or a substring of the name.
SearchHits(query) ==
    {id \in DOMAIN inventory :
        TsMatch(inventory[id], query) \/ ILike(inventory[id].name, query)}

SearchRow(id, query) ==
    [item |-> Returning(inventory[id]), rank |-> ts_rank(inventory[id], query)]

\* InventoryService.search(query, limit): the results the statement may
\* return, ORDER BY rank DESC LIMIT limit.
search(query, limit) ==
    {[i \in DOMAIN s |-> SearchRow(s[i], query)] :
        s \in {Limit(o, limit) :
                o \in OrderByDesc(SearchHits(query),
                                  [id \in SearchHits(query) |->
                                      ts_rank(inventory[id], query)])}}

\* The CTEs of hybridSearch: fts is the text-search match alone, vec the
\* rows that have an embedding.
Fts(query) == {id \in DOMAIN inventory : TsMatch(inventory[id], query)}

Vec == {id \in DOMAIN inventory : ~IsNull(inventory[id].embedding)}

\* COALESCE(fts.bm25_score, 0) * 0.4 + COALESCE(vec.cosine_score, 0) * 0.6,
\* in tenths
hybrid_score(id, query, v) ==
    (IF id \in Fts(query) THEN ts_rank(inventory[id], query) * 4 ELSE 0)
    + (IF id \in Vec THEN cosine_score(ValueOf(inventory[id].embedding), v) * 6
       ELSE 0)

HybridRow(id, query, v) ==
    [item |-> Returning(inventory[id]), hybrid_score |-> hybrid_score(id, query, v)]

\* InventoryService.hybridSearch(query, queryEmbedding, limit): the results
\* it may return.
hybridSearchMutantFtsOnly(query, queryEmbedding, limit) ==
    {[i \in DOMAIN s |-> SearchRow(s[i], query)] :
        s \in {Limit(o, limit) :
                o \in OrderByDesc(Fts(query),
                                  [id \in Fts(query) |->
                                      ts_rank(inventory[id], query)])}}

hybridSearch(query, queryEmbedding, limit) ==
    IF IsNull(queryEmbedding)
    THEN search(query, limit)
    ELSE LET v == ValueOf(queryEmbedding)
         IN {[i \in DOMAIN s |-> HybridRow(s[i], query, v)] :
                s \in {Limit(o, limit) :
                        o \in OrderByDesc(Fts(query) \cup Vec,
                                          [id \in Fts(query) \cup Vec |->
                                              hybrid_score(id, query, v)])}}

\* GET /inventory/search?q=&limit=
InventorySearch(query, limit) ==
    /\ Accepted
    /\ \E rows \in search(query, limit) :
         last' = InventoryCall("search", 0, NoInventoryDto, query, Null, limit,
                               RowsResult(rows))
    /\ UNCHANGED <<orderVars, now, inventory, nextItemId, drivers, nextDriverId,
                   dreq, vehicle_telemetry>>

\* A caller of InventoryService.hybridSearch
InventoryHybridSearch(query, queryEmbedding, limit) ==
    /\ Accepted
    /\ \E rows \in hybridSearch(query, queryEmbedding, limit) :
         last' = InventoryCall("hybridSearch", 0, NoInventoryDto, query,
                               queryEmbedding, limit, RowsResult(rows))
    /\ UNCHANGED <<orderVars, now, inventory, nextItemId, drivers, nextDriverId,
                   dreq, vehicle_telemetry>>

\* The catalogue a deployment starts with: up to two of these items, seeded
\* by the migration or left by an earlier run.
SeedItems ==
    {[name |-> <<"p">>, description |-> Null, embedding |-> Some(<<1, 0>>)],
     [name |-> <<"h", "p">>, description |-> Null, embedding |-> Null],
     [name |-> <<"p">>, description |-> Some(<<"h">>), embedding |-> Null],
     [name |-> << >>, description |-> Null, embedding |-> Some(<<0, 1>>)]}

Seeded(id, seed) ==
    InventoryRow(id, seed.name, seed.description, "{}", seed.embedding, 0)

\* The rest of the application at startup, no broker reachable.
OnlyInventory ==
    /\ orders = << >> /\ nextId = 1 /\ now = 0
    /\ brokerUp = FALSE /\ channel = RabbitMQProvider(brokerUp)
    /\ queue = {} /\ req = [r \in Req |-> Idle] /\ calls = 0
    /\ NoDrivers /\ NoTelemetry /\ last = NoCall

InitCatalog ==
    /\ \/ inventory = << >> /\ nextItemId = 1
       \/ \E a \in SeedItems : inventory = (1 :> Seeded(1, a)) /\ nextItemId = 2
    /\ OnlyInventory

InitSearch ==
    /\ \/ inventory = << >> /\ nextItemId = 1
       \/ \E a \in SeedItems : inventory = (1 :> Seeded(1, a)) /\ nextItemId = 2
       \/ \E a, b \in SeedItems :
            /\ a # b
            /\ inventory = (1 :> Seeded(1, a)) @@ (2 :> Seeded(2, b))
            /\ nextItemId = 3
    /\ OnlyInventory

ItemIds == 1..nextItemId

\* Create, read, update and delete on the catalogue.
NextInventory ==
    \/ \E dto \in InventoryDtos : InventoryCreate(dto)
    \/ \E id \in ItemIds : InventoryGet(id)
    \/ \E id \in ItemIds, dto \in InventoryDtos : InventoryUpdate(id, dto)
    \/ \E id \in ItemIds : InventoryRemove(id)

SpecInventory == InitCatalog /\ [][NextInventory]_vars

\* Searches over a catalogue, with deletions.
NextSearch ==
    \/ \E q \in Queries, n \in Limits : InventorySearch(q, n)
    \/ \E q \in Queries, v \in QueryEmbeddings, n \in Limits :
            InventoryHybridSearch(q, v, n)
    \/ \E id \in ItemIds : InventoryRemove(id)

SpecSearch == InitSearch /\ [][NextSearch]_vars

---------------------------------------------------------------------------
(* Drivers: DriversService over table drivers *)

DriverStored(id) == id \in DOMAIN drivers

WithDriver(row) ==
    [i \in DOMAIN drivers \cup {row.id} |-> IF i = row.id THEN row ELSE drivers[i]]

\* DELETE FROM drivers WHERE id = ..., when the row stays
WithoutDriverMutantKeepsRow(id) == drivers

WithoutDriver(id) == [i \in DOMAIN drivers \ {id} |-> drivers[i]]

\* A call on the drivers service and its outcome.
DriverCall(op, id, other, dto, point, radius, status, result) ==
    [op |-> op, id |-> id, other |-> other, dto |-> dto, point |-> point,
     radius |-> radius, status |-> status, result |-> result, at |-> calls']

NoPoint == ST_MakePoint(0, 0)

\* { message: `Driver #${id} deleted`, id }
DeletedResult(id) == [kind |-> "deleted", id |-> id]

\* POST /drivers.  A body without a name puts NULL into a NOT NULL column
\* and the store rejects the row; the status defaults to 'offline', the
\* location to NULL.
DriverCreate(dto) ==
    /\ Accepted
    /\ IF "name" \in dto.present
       THEN LET row == DriverRow(nextDriverId, dto.name,
                           IF "status" \in dto.present THEN dto.status
                                                       ELSE "offline",
                           IF "location" \in dto.present
                           THEN Some(ST_MakePoint(dto.location.lon,
                                                  dto.location.lat))
                           ELSE Null)
            IN /\ drivers' = WithDriver(row)
               /\ last' = DriverCall("create", row.id, 0, dto, NoPoint, 0, Null,
                                     ItemResult(row))
       ELSE /\ drivers' = drivers
            /\ last' = DriverCall("create", 0, 0, dto, NoPoint, 0, Null,
                                  ServerErrorResult)
    \* the sequence of ids advances for a rejected row too
    /\ nextDriverId' = nextDriverId + 1
    /\ UNCHANGED <<orderVars, now, inventory, nextItemId, dreq,
                   vehicle_telemetry>>

\* DriversService.findOne: the row, or NotFoundException
DriverFindOne(id) ==
    IF DriverStored(id) THEN ItemResult(drivers[id]) ELSE NotFoundResult

\* GET /drivers/:id
DriverGet(id) ==
    /\ Accepted
    /\ last' = DriverCall("findOne", id, 0, NoDriverDto, NoPoint, 0, Null,
                          DriverFindOne(id))
    /\ UNCHANGED <<orderVars, now, inventory, nextItemId, drivers,
                   nextDriverId, dreq, vehicle_telemetry>>

\* The columns update assigns: the fields of the body that are not undefined.
SetParts(dto) == dto.present

DriverUpdated(row, dto) ==
    [row EXCEPT
        !.name = IF "name" \in SetParts(dto) THEN dto.name ELSE @,
        !.status = IF "status" \in SetParts(dto) THEN dto.status ELSE @,
        !.location = IF "location" \in SetParts(dto)
                     THEN Some(ST_MakePoint(dto.location.lon, dto.location.lat))
                     ELSE @]

DFree(r) == dreq[r] = DIdle

\* PATCH /drivers/:id, first statement: the findOne guard.  A missing row
\* ends the request with NotFoundException.
DriverUpdateFind(r, id, dto) ==
    /\ DFree(r)
    /\ Accepted
    /\ IF DriverStored(id)
       THEN /\ dreq' = [dreq EXCEPT ![r] =
                          [op |-> "update",
                           pc |-> IF SetParts(dto) = {} THEN "refind"
                                                        ELSE "write",
                           id |-> id, dto |-> dto]]
            /\ last' = last
       ELSE /\ dreq' = dreq
            /\ last' = DriverCall("update", id, 0, dto, NoPoint, 0, Null,
                                  NotFoundResult)
    /\ UNCHANGED <<orderVars, now, inventory, nextItemId, drivers,
                   nextDriverId, vehicle_telemetry>>

\* update with no field to set: return this.findOne(id)
DriverUpdateRefind(r) ==
    /\ dreq[r].pc = "refind"
    /\ calls' = calls
    /\ dreq' = [dreq EXCEPT ![r] = DIdle]
    /\ last' = DriverCall("update", dreq[r].id, 0, dreq[r].dto, NoPoint, 0,
                          Null, DriverFindOne(dreq[r].id))
    /\ UNCHANGED <<orderVars, now, inventory, nextItemId, drivers,
                   nextDriverId, vehicle_telemetry>>

\* update, the UPDATE ... RETURNING statement: result.rows[0] is undefined
\* when the row has been deleted since the guard.
DriverUpdateWrite(r) ==
    /\ dreq[r].pc = "write"
    /\ calls' = calls
    /\ dreq' = [dreq EXCEPT ![r] = DIdle]
    /\ IF DriverStored(dreq[r].id)
       THEN LET updated == DriverUpdated(drivers[dreq[r].id], dreq[r].dto)
            IN /\ drivers' = WithDriver(updated)
               /\ last' = DriverCall("update", dreq[r].id, 0, dreq[r].dto,
                                     NoPoint, 0, Null, ItemResult(updated))
       ELSE /\ drivers' = drivers
            /\ last' = DriverCall("update", dreq[r].id, 0, dreq[r].dto,
                                  NoPoint, 0, Null, UndefinedAnswer)
    /\ UNCHANGED <<orderVars, now, inventory, nextItemId,
                   nextDriverId, vehicle_telemetry>>

\* DELETE /drivers/:id, first statement: the findOne guard
DriverRemoveFind(r, id) ==
    /\ DFree(r)
    /\ Accepted
    /\ IF DriverStored(id)
       THEN /\ dreq' = [dreq EXCEPT ![r] =
                          [op |-> "remove", pc |-> "delete", id |-> id,
                           dto |-> NoDriverDto]]
            /\ last' = last
       ELSE /\ dreq' = dreq
            /\ last' = DriverCall("remove", id, 0, NoDriverDto, NoPoint, 0,
                                  Null, NotFoundResult)
    /\ UNCHANGED <<orderVars, now, inventory, nextItemId, drivers,
                   nextDriverId, vehicle_telemetry>>

\* remove, the DELETE statement, and the answer
DriverRemoveDelete(r) ==
    /\ dreq[r].pc = "delete"
    /\ calls' = calls
    /\ dreq' = [dreq EXCEPT ![r] = DIdle]
    /\ drivers' = WithoutDriver(dreq[r].id)
    /\ last' = DriverCall("remove", dreq[r].id, 0, NoDriverDto, NoPoint, 0,
                          Null, DeletedResult(dreq[r].id))
    /\ UNCHANGED <<orderVars, now, inventory, nextItemId,
                   nextDriverId, vehicle_telemetry>>

\* UPDATE drivers SET location = ... WHERE id = ... of updateLocation, when
\* it keeps the other columns of the row
LocationUpdatedMutantGoesOnline(row, point) ==
    [row EXCEPT !.location = Some(point), !.status = "online"]

\* UPDATE drivers SET location = ST_SetSRID(ST_MakePoint(lon, lat), 4326)
LocationUpdated(row, point) == [row EXCEPT !.location = Some(point)]

\* PATCH /drivers/:id/location?lat=&lon=: one statement
UpdateLocation(id, point) ==
    /\ Accepted
    /\ IF DriverStored(id)
       THEN LET updated == LocationUpdated(drivers[id], point)
            IN /\ drivers' = WithDriver(updated)
               /\ last' = DriverCall("updateLocation", id, 0, NoDriverDto,
                                     point, 0, Null, ItemResult(updated))
       ELSE /\ drivers' = drivers
            /\ last' = DriverCall("updateLocation", id, 0, NoDriverDto, point,
                                  0, Null, NotFoundResult)
    /\ UNCHANGED <<orderVars, now, inventory, nextItemId, nextDriverId, dreq,
                   vehicle_telemetry>>

\* findNearby: WHERE location IS NOT NULL AND ST_DWithin(location, ref,
\* radius) [AND status = ...]
NearbyHits(point, radius, status) ==
    {id \in DOMAIN drivers :
        /\ ~IsNull(drivers[id].location)
        /\ ST_DWithin(ValueOf(drivers[id].location), point, radius)
        /\ IsNull(status) \/ drivers[id].status = ValueOf(status)}

\* ST_Distance(location, ref)::int AS distance_m, in whole metres
distance_m(a, b) == ToInt(ST_Distance(a, b))

NearbyRow(id, point) ==
    [id |-> id, name |-> drivers[id].name, status |-> drivers[id].status,
     location |-> drivers[id].location,
     distance_m |-> distance_m(ValueOf(drivers[id].location), point)]

\* DriversService.findNearby(lat, lon, radiusMetres, status): the results it
\* may return, ORDER BY distance_m ASC.
findNearby(point, radius, status) ==
    {[i \in DOMAIN s |-> NearbyRow(s[i], point)] :
        s \in OrderByAsc(NearbyHits(point, radius, status),
                         [id \in NearbyHits(point, radius, status) |->
                            distance_m(ValueOf(drivers[id].location), point)])}

\* GET /drivers/nearby?lat=&lon=&radius_m=&status=
FindNearby(point, radius, status) ==
    /\ Accepted
    /\ \E rows \in findNearby(point, radius, status) :
         last' = DriverCall("findNearby", 0, 0, NoDriverDto, point, radius,
                            status, RowsResult(rows))
    /\ UNCHANGED <<orderVars, now, inventory, nextItemId, drivers,
                   nextDriverId, dreq, vehicle_telemetry>>

\* { driver_a, driver_b, distance_m }
DistanceResult(a, b, d) ==
    [kind |-> "distance", driver_a |-> a, driver_b |-> b, distance_m |-> d]

\* distanceBetween when only driver a must have a location: a NULL location
\* of b makes ST_Distance NULL.
distanceBetweenMutantOneSided(a, b) ==
    IF /\ DriverStored(a) /\ DriverStored(b)
       /\ ~IsNull(drivers[a].location)
    THEN IF IsNull(drivers[b].location)
         THEN DistanceResult(a, b, Null)
         ELSE DistanceResult(a, b, distance_m(ValueOf(drivers[a].location),
                                              ValueOf(drivers[b].location)))
    ELSE NotFoundResult

\* DriversService.distanceBetween(driverAId, driverBId): the self-join of
\* drivers on the two ids, both locations NOT NULL; no row is
\* NotFoundException.
distanceBetween(a, b) ==
    IF /\ DriverStored(a) /\ DriverStored(b)
       /\ ~IsNull(drivers[a].location) /\ ~IsNull(drivers[b].location)
    THEN DistanceResult(a, b, distance_m(ValueOf(drivers[a].location),
                                         ValueOf(drivers[b].location)))
    ELSE NotFoundResult

\* GET /drivers/distance/:a/:b
DistanceBetween(a, b) ==
    /\ Accepted
    /\ last' = DriverCall("distanceBetween", a, b, NoDriverDto, NoPoint, 0,
                          Null, distanceBetween(a, b))
    /\ UNCHANGED <<orderVars, now, inventory, nextItemId, drivers,
                   nextDriverId, dreq, vehicle_telemetry>>

\* Drivers the table may hold at startup.
SeedDrivers ==
    {[name |-> <<"a">>, status |-> "online", location |-> Some(ST_MakePoint(0, 0))],
     [name |-> <<"b">>, status |-> "online", location |-> Some(ST_MakePoint(0, 6))],
     [name |-> <<"c">>, status |-> "busy", location |-> Some(ST_MakePoint(0, 20))],
     [name |-> <<"d">>, status |-> "offline", location |-> Null]}

SeededDriver(id, seed) == DriverRow(id, seed.name, seed.status, seed.location)

\* The rest of the application at startup, no broker reachable.
OnlyDrivers ==
    /\ orders = << >> /\ nextId = 1 /\ now = 0
    /\ brokerUp = FALSE /\ channel = RabbitMQProvider(brokerUp)
    /\ queue = {} /\ req = [r \in Req |-> Idle] /\ calls = 0
    /\ NoInventory /\ NoTelemetry /\ last = NoCall
    /\ dreq = [r \in Req |-> DIdle]

InitDrivers ==
    /\ \/ drivers = << >> /\ nextDriverId = 1
       \/ \E a \in SeedDrivers :
            drivers = (1 :> SeededDriver(1, a)) /\ nextDriverId = 2
    /\ OnlyDrivers

InitFleet ==
    /\ \/ \E a \in SeedDrivers :
            drivers = (1 :> SeededDriver(1, a)) /\ nextDriverId = 2
       \/ \E a, b \in SeedDrivers :
            /\ a # b
            /\ drivers = (1 :> SeededDriver(1, a)) @@ (2 :> SeededDriver(2, b))
            /\ nextDriverId = 3
    /\ OnlyDrivers

DriverIds == 1..nextDriverId

\* Status filters of findNearby: none, or one status.
StatusFilters == {Null, Some("online")}

\* Create, read, update, delete and position pings on drivers.
NextDrivers ==
    \/ \E dto \in DriverDtos : DriverCreate(dto)
    \/ \E id \in DriverIds : DriverGet(id)
    \/ \E r \in Req, id \in DriverIds, dto \in DriverDtos :
            DriverUpdateFind(r, id, dto)
    \/ \E r \in Req : DriverUpdateRefind(r)
    \/ \E r \in Req : DriverUpdateWrite(r)
    \/ \E r \in Req, id \in DriverIds : DriverRemoveFind(r, id)
    \/ \E r \in Req : DriverRemoveDelete(r)
    \/ \E id \in DriverIds, p \in Points : UpdateLocation(id, p)

SpecDrivers == InitDrivers /\ [][NextDrivers]_vars

\* Proximity queries over a fleet that moves and shrinks.
NextNearby ==
    \/ \E p \in Points, radius \in Radii, s \in StatusFilters :
            FindNearby(p, radius, s)
    \/ \E a, b \in DriverIds : DistanceBetween(a, b)
    \/ \E id \in DriverIds, p \in Points : UpdateLocation(id, p)

SpecNearby == InitFleet /\ [][NextNearby]_vars

---------------------------------------------------------------------------
(* Telemetry: TelemetryService over the hypertable vehicle_telemetry *)

\* A call on the telemetry service and its outcome.
TelemetryCall(op, vehicle_id, dto, bucket, from, to, n, result) ==
    [op |-> op, vehicle_id |-> vehicle_id, dto |-> dto, bucket |-> bucket,
     from |-> from, to |-> to, n |-> n, result |-> result, at |-> calls']

NoTelemetryDto == TelemetryDto("", Null, Null)

\* INSERT INTO vehicle_telemetry ... , when a reading of the same vehicle
\* and instant is replaced by the new one
WithReadingMutantUpsert(row) ==
    IF \E i \in DOMAIN vehicle_telemetry :
            /\ vehicle_telemetry[i].time = row.time
            /\ vehicle_telemetry[i].vehicle_id = row.vehicle_id
    THEN [i \in DOMAIN vehicle_telemetry |->
            IF /\ vehicle_telemetry[i].time = row.time
               /\ vehicle_telemetry[i].vehicle_id = row.vehicle_id
            THEN row ELSE vehicle_telemetry[i]]
    ELSE Append(vehicle_telemetry, row)

\* INSERT INTO vehicle_telemetry (...) VALUES (...): the table has no key,
\* the row is added
WithReading(row) == Append(vehicle_telemetry, row)

\* POST /telemetry: time is dto.time, or the clock when it is omitted.
TelemetryCreate(dto) ==
    /\ Accepted
    /\ LET time == IF IsNull(dto.time) THEN now ELSE ValueOf(dto.time)
           row == Reading(time, dto.vehicle_id, dto.speed)
       IN /\ vehicle_telemetry' = WithReading(row)
          /\ last' = TelemetryCall("create", dto.vehicle_id, dto, 0, Null, Null,
                                   0, ItemResult(row))
    /\ UNCHANGED <<orderVars, now, inventory, nextItemId, drivers,
                   nextDriverId, dreq>>

\* The positions of the rows of one vehicle, or of all without a filter.
RowsOf(vehicle_id) ==
    {i \in DOMAIN vehicle_telemetry :
        IsNull(vehicle_id) \/ vehicle_telemetry[i].vehicle_id = ValueOf(vehicle_id)}

\* ORDER BY time DESC over a set of positions
LatestFirst(S) == OrderByDesc(S, [i \in S |-> vehicle_telemetry[i].time])

\* OFFSET
Offset(s, n) == SubSeq(s, n + 1, Len(s))

\* TelemetryService.findAll(vehicle_id, limit, offset): the results it may
\* return.
findAll(vehicle_id, limit, offset) ==
    {[i \in DOMAIN s |-> vehicle_telemetry[s[i]]] :
        s \in {Limit(Offset(o, offset), limit) : o \in LatestFirst(RowsOf(vehicle_id))}}

\* GET /telemetry?vehicle_id=&limit=&offset=
TelemetryFindAll(vehicle_id, limit, offset) ==
    /\ Accepted
    /\ \E rows \in findAll(vehicle_id, limit, offset) :
         last' = TelemetryCall("findAll", vehicle_id, NoTelemetryDto, 0, Null,
                               Null, limit, RowsResult(rows))
    /\ UNCHANGED <<orderVars, now, inventory, nextItemId, drivers,
                   nextDriverId, dreq, vehicle_telemetry>>

\* findLatest when the rows come oldest first
findLatestMutantOldest(vehicle_id) ==
    IF RowsOf(Some(vehicle_id)) = {}
    THEN {NotFoundResult}
    ELSE {ItemResult(vehicle_telemetry[o[Len(o)]]) :
            o \in LatestFirst(RowsOf(Some(vehicle_id)))}

\* TelemetryService.findLatest(vehicle_id): the answers it may give
findLatest(vehicle_id) ==
    IF RowsOf(Some(vehicle_id)) = {}
    THEN {NotFoundResult}
    ELSE {ItemResult(vehicle_telemetry[o[1]]) :
            o \in LatestFirst(RowsOf(Some(vehicle_id)))}

\* GET /telemetry/:vehicle_id/latest
TelemetryFindLatest(vehicle_id) ==
    /\ Accepted
    /\ \E result \in findLatest(vehicle_id) :
         last' = TelemetryCall("findLatest", Some(vehicle_id), NoTelemetryDto,
                               0, Null, Null, 0, result)
    /\ UNCHANGED <<orderVars, now, inventory, nextItemId, drivers,
                   nextDriverId, dreq, vehicle_telemetry>>

\* from ? new Date(from) : new Date(Date.now() - 86_400_000)
FromTime(from) == IF IsNull(from) THEN DayBefore(now) ELSE ValueOf(from)

\* to ? new Date(to) : new Date()
ToTime(to) == IF IsNull(to) THEN now ELSE ValueOf(to)

\* aggregate: WHERE vehicle_id = ... AND time BETWEEN fromTime AND toTime
Aggregated(vehicle_id, from, to) ==
    {i \in DOMAIN vehicle_telemetry :
        /\ vehicle_telemetry[i].vehicle_id = vehicle_id
        /\ FromTime(from) <= vehicle_telemetry[i].time
        /\ vehicle_telemetry[i].time <= ToTime(to)}

RECURSIVE SumOf(_, _)
SumOf(S, value) ==
    IF S = {} THEN 0
    ELSE LET i == CHOOSE x \in S : TRUE
         IN value[i] + SumOf(S \ {i}, value)

\* ROUND(AVG(column)::numeric, 2), in hundredths: NULL without a non-null
\* value, halves rounded away from zero.
Avg(S, column) ==
    LET known == {i \in S : ~IsNull(vehicle_telemetry[i][column])}
        count == Cardinality(known)
        sum == SumOf(known, [i \in known |-> ValueOf(vehicle_telemetry[i][column])])
    IN IF count = 0 THEN Null
       ELSE Some((2 * 100 * sum + count) \div (2 * count))

\* One row of aggregate: GROUP BY bucket, vehicle_id
BucketRow(S, width, bucket, vehicle_id) ==
    LET group == {i \in S : time_bucket(width, vehicle_telemetry[i].time) = bucket}
    IN [bucket |-> bucket, vehicle_id |-> vehicle_id,
        avg_speed |-> Avg(group, "speed"),
        avg_battery |-> Avg(group, "battery_level"),
        avg_temperature |-> Avg(group, "temperature"),
        readings |-> Cardinality(group)]

\* TelemetryService.aggregate(vehicle_id, bucket, from, to): ORDER BY bucket
\* DESC
aggregate(vehicle_id, width, from, to) ==
    LET S == Aggregated(vehicle_id, from, to)
        buckets == {time_bucket(width, vehicle_telemetry[i].time) : i \in S}
        o == CHOOSE s \in OrderByDesc(buckets, [b \in buckets |-> b]) : TRUE
    IN [i \in DOMAIN o |-> BucketRow(S, width, o[i], vehicle_id)]

\* GET /telemetry/:vehicle_id/aggregate?bucket=&from=&to=
TelemetryAggregate(vehicle_id, width, from, to) ==
    /\ Accepted
    /\ last' = TelemetryCall("aggregate", Some(vehicle_id), NoTelemetryDto,
                             width, from, to, 0,
                             RowsResult(aggregate(vehicle_id, width, from, to)))
    /\ UNCHANGED <<orderVars, now, inventory, nextItemId, drivers,
                   nextDriverId, dreq, vehicle_telemetry>>

\* The window of fleetSummary when its start is included
InWindowMutantInclusive(windowHours) ==
    {i \in DOMAIN vehicle_telemetry :
        vehicle_telemetry[i].time >= now - windowHours}

\* fleetSummary: WHERE time > NOW() - windowHours hours
InWindow(windowHours) ==
    {i \in DOMAIN vehicle_telemetry :
        vehicle_telemetry[i].time > now - windowHours}

SummaryRow(row) ==
    [vehicle_id |-> row.vehicle_id, last_seen |-> row.time,
     speed |-> row.speed, battery_level |-> row.battery_level,
     temperature |-> row.temperature, location |-> row.location]

\* TelemetryService.fleetSummary(windowHours): SELECT DISTINCT ON
\* (vehicle_id) ... ORDER BY vehicle_id, time DESC: per vehicle one of its
\* latest rows of the window; the vehicles in ascending order.
fleetSummary(windowHours) ==
    LET seen == {vehicle_telemetry[i].vehicle_id : i \in InWindow(windowHours)}
        ofVehicle(v) == {i \in InWindow(windowHours) :
                            vehicle_telemetry[i].vehicle_id = v}
        picks == {f \in [seen -> DOMAIN vehicle_telemetry] :
                    \A v \in seen :
                        /\ f[v] \in ofVehicle(v)
                        /\ \A j \in ofVehicle(v) :
                              vehicle_telemetry[j].time <= vehicle_telemetry[f[v]].time}
        order == IF seen = {} THEN << >>
                 ELSE IF seen = {"v1", "v2"} THEN <<"v1", "v2">>
                 ELSE <<CHOOSE v \in seen : TRUE>>
    IN {[k \in DOMAIN order |-> SummaryRow(vehicle_telemetry[f[order[k]]])] :
            f \in picks}

\* GET /telemetry/fleet?window_hours=
TelemetryFleetSummary(windowHours) ==
    /\ Accepted
    /\ \E rows \in fleetSummary(windowHours) :
         last' = TelemetryCall("fleetSummary", Null, NoTelemetryDto, 0, Null,
                               Null, windowHours, RowsResult(rows))
    /\ UNCHANGED <<orderVars, now, inventory, nextItemId, drivers,
                   nextDriverId, dreq, vehicle_telemetry>>

\* The chunk of the hypertable a row lies in: chunks are a week wide.
ChunkOf(t) == time_bucket(7 * 24, t)

\* TelemetryService.hypertableStats(): the chunks of the hypertable, latest
\* first, and their compression; the policy compresses chunks older than 7
\* days, and none here is.
hypertableStats ==
    LET starts == {ChunkOf(vehicle_telemetry[i].time) : i \in DOMAIN vehicle_telemetry}
        o == CHOOSE s \in OrderByDesc(starts, [c \in starts |-> c]) : TRUE
    IN [kind |-> "stats",
        compression |->
            [total_chunks |-> Cardinality(starts), compressed_chunks |-> 0,
             compression_ratio |-> IF starts = {} THEN Null ELSE Some(0)],
        chunks |-> [k \in DOMAIN o |->
                      [range_start |-> o[k], range_end |-> o[k] + 7 * 24,
                       is_compressed |-> FALSE]]]

\* GET /telemetry/stats
TelemetryStats ==
    /\ Accepted
    /\ last' = TelemetryCall("hypertableStats", Null, NoTelemetryDto, 0, Null,
                             Null, 0, hypertableStats)
    /\ UNCHANGED <<orderVars, now, inventory, nextItemId, drivers,
                   nextDriverId, dreq, vehicle_telemetry>>

\* Readings the hypertable may hold at startup: one older than a day, one a
\* day old to the hour, and recent ones.
SeedReadings ==
    {Reading(0 - 25, "v1", Some(4)), Reading(0 - 24, "v1", Some(7)),
     Reading(0, "v1", Some(4)), Reading(1, "v1", Null),
     Reading(1, "v2", Some(7))}

\* The rest of the application at startup, no broker reachable.
OnlyTelemetry ==
    /\ orders = << >> /\ nextId = 1 /\ now = 0
    /\ brokerUp = FALSE /\ channel = RabbitMQProvider(brokerUp)
    /\ queue = {} /\ req = [r \in Req |-> Idle] /\ calls = 0
    /\ NoInventory /\ NoDrivers /\ last = NoCall

InitTelemetry ==
    /\ \/ vehicle_telemetry = << >>
       \/ \E a \in SeedReadings : vehicle_telemetry = <<a>>
       \/ \E a, b \in SeedReadings : a # b /\ vehicle_telemetry = <<a, b>>
    /\ OnlyTelemetry

\* The arguments of the model's requests.
Froms == {Null, Some(0)}
Tos == {Null, Some(1)}
Windows == {1, 24}
VehicleFilters == {Null, Some("v1")}
Offsets == {0, 1}

\* Every operation of the telemetry service, and the clock.
NextTelemetry ==
    \/ \E dto \in TelemetryDtos : TelemetryCreate(dto)
    \/ \E v \in VehicleFilters, n \in Limits, k \in Offsets :
            TelemetryFindAll(v, n, k)
    \/ \E v \in Vehicles : TelemetryFindLatest(v)
    \/ \E v \in Vehicles, w \in BucketWidths, from \in Froms, to \in Tos :
            TelemetryAggregate(v, w, from, to)
    \/ \E w \in Windows : TelemetryFleetSummary(w)
    \/ TelemetryStats
    \/ Tick

SpecTelemetry == InitTelemetry /\ [][NextTelemetry]_vars

---------------------------------------------------------------------------
(* The three stores side by side: orders, inventory, drivers *)

\* One row in each table when the process starts.
InitStores ==
    /\ orders = (1 :> PlacedBefore("pending")) /\ nextId = 2
    /\ now = 0
    /\ brokerUp \in BOOLEAN
    /\ channel = RabbitMQProvider(brokerUp)
    /\ queue = {} /\ req = [r \in Req |-> Idle] /\ calls = 0
    /\ \E a \in SeedItems : inventory = (1 :> Seeded(1, a)) /\ nextItemId = 2
    /\ drivers = (1 :> SeededDriver(1, CHOOSE d \in SeedDrivers : d.status = "busy"))
    /\ nextDriverId = 2
    /\ dreq = [r \in Req |-> DIdle]
    /\ NoTelemetry /\ last = NoCall

\* The bodies of the lifecycle requests: a valid order; an order update with
\* no field or a quantity; an item name; a driver body with no field or a
\* name.
LifecycleOrder == Dto(Fields \ {"metadata"}, "a", "a", "a", 1, "")
LifecycleOrderUpdates == {dto \in UpdateDtos : dto.present \subseteq {"quantity"}}
LifecycleItems == {dto \in InventoryDtos : dto.present = {"name"}}
LifecycleDrivers == {dto \in DriverDtos : dto.present \subseteq {"name"}}

\* Create, read, update and delete on each of the three resources.
NextLifecycle ==
    \/ Create({LifecycleOrder})
    \/ \E r \in FreeSlots, id \in OrderIds, dto \in LifecycleOrderUpdates :
            UpdateFind(r, id, dto)
    \/ \E r \in Req : UpdateRefind(r)
    \/ \E r \in Req : UpdateWrite(r)
    \/ \E r \in FreeSlots, id \in OrderIds : StatusFind(r, id, "processing")
    \/ \E r \in Req : StatusWrite(r)
    \/ Remove
    \/ \E r \in FreeSlots, id \in OrderIds : FindOne(r, id)
    \/ \E dto \in LifecycleItems : InventoryCreate(dto)
    \/ \E id \in ItemIds : InventoryGet(id)
    \/ \E id \in ItemIds, dto \in LifecycleItems : InventoryUpdate(id, dto)
    \/ \E id \in ItemIds : InventoryRemove(id)
    \/ \E dto \in LifecycleDrivers : DriverCreate(dto)
    \/ \E id \in DriverIds : DriverGet(id)
    \/ \E r \in Req, id \in DriverIds, dto \in LifecycleDrivers :
            DriverUpdateFind(r, id, dto)
    \/ \E r \in Req : DriverUpdateRefind(r)
    \/ \E r \in Req : DriverUpdateWrite(r)
    \/ \E r \in Req, id \in DriverIds : DriverRemoveFind(r, id)
    \/ \E r \in Req : DriverRemoveDelete(r)
    \/ \E id \in DriverIds : UpdateLocation(id, ST_MakePoint(0, 6))

SpecLifecycle == InitStores /\ [][NextLifecycle]_vars

---------------------------------------------------------------------------
(* A consumer of the orders queue *)

\* What the worker reports on PATCH /orders/:id/status.
WorkerStatuses == {"processing", "completed", "failed"}

\* The worker's callback for an order whose message it has received: the
\* message was written to the channel, which happens inside create, before
\* create's own status write.
Consume(r, id, value) ==
    /\ id \in queue
    /\ StatusFind(r, id, value)

\* Order placement while a worker consumes the queue, as time passes.
NextConsume ==
    \/ Create({LifecycleOrder})
    \/ \E r \in FreeSlots, id \in OrderIds, value \in WorkerStatuses :
            Consume(r, id, value)
    \/ \E r \in Req : StatusWrite(r)
    \/ Tick

SpecConsume == Init /\ [][NextConsume]_vars

---------------------------------------------------------------------------
(* Properties of order placement *)

\* The step in which slot r accepts a request.
Accepts(r) == Free(r) /\ calls' = calls + 1

\* The step in which the request in slot r leaves position pc.
Leaves(r, pc) == req[r].pc = pc /\ req'[r].pc # pc

\* C1: when no usable channel is injected, or the publish throws, create
\* still inserts the order row and returns that row with status 'pending';
\* it performs no status update and raises no error.
C1_DegradedCreateReturnsPending ==
    [][\A r \in Req :
         /\ (Accepts(r) /\ req'[r].op = "create" /\ channel # "open"
                /\ InsertCommits(req'[r].dto))
              => /\ req'[r].pc = "publish"
                 /\ req'[r].order.id \in DOMAIN orders' \ DOMAIN orders
                 /\ orders'[req'[r].order.id] = req'[r].order
                 /\ req'[r].order.status = "pending"
         /\ (Leaves(r, "publish") /\ channel # "open")
              => /\ req'[r].pc = "done"
                 /\ req'[r].pub \in {"nochannel", "threw"}
                 /\ req'[r].result = RowResult(req[r].order)
                 /\ req'[r].result.row.status = "pending"
                 /\ orders' = orders
                 /\ queue' = queue]_vars

\* A create whose publish threw on a closed channel has answered with the
\* pending row it inserted.
C1_Witness ==
    \E r \in Req :
        /\ req[r].op = "create"
        /\ req[r].pc = "done"
        /\ req[r].pub = "threw"
        /\ req[r].result = RowResult(req[r].order)
        /\ req[r].result.row.status = "pending"
        /\ Stored(req[r].order.id)
        /\ orders[req[r].order.id].status = "pending"

\* C2: within one create the INSERT completes before the publish is
\* attempted: a message for order X is written only by a request whose row X
\* has been inserted, and a create whose INSERT fails publishes nothing.
C2_InsertBeforePublish ==
    [][/\ \A x \in queue' \ queue :
            \E r \in Req : /\ req[r].pc = "publish"
                           /\ req[r].order.id = x
                           /\ req[r].order # NullRow
                           /\ x \in 1..(nextId - 1)
       /\ \A r \in Req :
            /\ (req'[r].pc = "publish" /\ req[r].pc # "publish")
                 => /\ req'[r].order.id \in DOMAIN orders' \ DOMAIN orders
                    /\ orders'[req'[r].order.id] = req'[r].order
                    /\ queue' = queue
            /\ (Accepts(r) /\ req'[r].op = "create" /\ orders' = orders)
                 => /\ req'[r].pc = "done"
                    /\ req'[r].result.kind # "row"
                    /\ queue' = queue]_vars

\* A message is on the queue for an order whose row is in the table.
C2_Witness ==
    \E r \in Req :
        /\ req[r].op = "create"
        /\ req[r].order.id \in queue
        /\ Stored(req[r].order.id)
        /\ MessageSent(req[r].pub)

\* C3: every create whose publish succeeds updates the order's status to
\* 'queued' and returns an order row with status 'queued'.
C3_PublishedReturnsQueued ==
    \A r \in Req :
        (req[r].op = "create" /\ req[r].pc = "done" /\ req[r].pub = "true")
            => /\ req[r].result.kind = "row"
               /\ req[r].result.row.status = "queued"

\* C4: the INSERT's success alone defines the success of create: once the
\* row is inserted the call returns an order row and raises no error, also
\* when the row is removed before the follow-up UPDATE.
C4_InsertDefinesSuccess ==
    \A r \in Req :
        (req[r].op = "create" /\ req[r].pc = "done" /\ req[r].order # NullRow)
            => /\ req[r].result.kind = "row"
               /\ req[r].result.row.id = req[r].order.id

\* C5: queueStats returns null and never raises when the queue connection
\* is unavailable, including when the broker is lost after startup.
C5_QueueStatsNullWhenUnavailable ==
    [][\A r \in Req :
         (Accepts(r) /\ req'[r].op = "queueStats" /\ channel # "open")
            => req'[r].result = NullResult]_vars

\* C6: a POST /orders body with quantity <= 0 or an empty customerId,
\* driverId or inventoryId fails with ValidationError before any statement
\* reaches the store, and writes no order row.
C6_InvalidBodyRejected ==
    [][\A r \in Req :
         (Accepts(r) /\ req'[r].op = "create"
             /\ ~CreateOrderDtoValid(req'[r].dto))
            => /\ req'[r].result = ValidationError
               /\ orders' = orders
               /\ nextId' = nextId]_vars

---------------------------------------------------------------------------
(* Properties of order updates *)

\* C7: partial-update law for orders: after update(id, body) on an existing
\* order every field present in the body holds the value sent for it, and
\* every other column except updated_at is unchanged.
C7_PartialUpdateLaw ==
    [][\A r \in Req :
         (req[r].op = "update" /\ Leaves(r, "write") /\ Stored(req[r].id))
            => /\ Stored(req[r].id)'
               /\ req'[r].result = RowResult(orders'[req[r].id])
               /\ \A f \in Fields :
                    orders'[req[r].id][Column(f)] =
                        IF f \in req[r].dto.present
                        THEN req[r].dto[f]
                        ELSE orders[req[r].id][Column(f)]
               /\ \A c \in {"id", "status", "created_at"} :
                    orders'[req[r].id][c] = orders[req[r].id][c]]_vars

\* A step in which an update answers with an order row.
UpdateAnswersRow(r) ==
    /\ req[r].op = "update"
    /\ req[r].pc \in {"write", "refind"}
    /\ req'[r].pc = "done"
    /\ req'[r].result.kind = "row"

\* C8 as stated: every successful update refreshes updated_at to the time of
\* the call, for every subset of fields present in the request, including
\* none.
C8_EveryUpdateRefreshes ==
    [][\A r \in Req :
         UpdateAnswersRow(r)
            => /\ req'[r].result.row.updated_at = now
               /\ orders'[req[r].id].updated_at = now]_vars

\* C8: every successful update with at least one field present refreshes
\* updated_at to the time of the call; an update with no field present
\* returns the stored row and writes nothing.
C8_UpdateWithFieldRefreshes ==
    [][\A r \in Req :
         UpdateAnswersRow(r)
            => IF req[r].dto.present # {}
               THEN /\ req'[r].result.row.updated_at = now
                    /\ orders'[req[r].id].updated_at = now
               ELSE /\ orders' = orders
                    /\ req'[r].result = RowResult(orders[req[r].id])]_vars

\* An update with a field present has answered with a row stamped later
\* than its creation, and nothing but the update has written to the row.
C8_Witness ==
    \E r \in Req :
        /\ req[r].op = "update"
        /\ req[r].pc = "done"
        /\ req[r].dto.present # {}
        /\ req[r].result.kind = "row"
        /\ req[r].result.row.updated_at = now
        /\ req[r].result.row.updated_at > req[r].result.row.created_at
        /\ req[r].result.row.status = "pending"

---------------------------------------------------------------------------
(* Properties of order status *)

\* C9: the status of every stored order is always one of pending, queued,
\* processing, completed, failed, whatever `value` updateStatus is called
\* with.
C9_StatusAlwaysInEnum ==
    \A id \in DOMAIN orders : orders[id].status \in OrderStatuses

\* updateStatus was called on a stored order with a value outside the five
\* and was refused by the store.
C9_Witness ==
    \E r \in Req :
        /\ req[r].op = "updateStatus"
        /\ req[r].pc = "done"
        /\ req[r].value \notin OrderStatuses
        /\ req[r].result = ServerError
        /\ Stored(req[r].id)

\* C10: updateStatus enforces no transition graph: for an existing order in
\* any status s and any valid status t it succeeds and changes only status
\* and updated_at; for an id that does not exist it fails with NotFound and
\* changes nothing.
C10_NoTransitionGraph ==
    [][\A r \in Req :
         /\ (req[r].op = "updateStatus" /\ Leaves(r, "write")
                /\ Stored(req[r].id) /\ req[r].value \in OrderStatuses)
              => /\ orders' = [orders EXCEPT
                                 ![req[r].id].status = req[r].value,
                                 ![req[r].id].updated_at = now]
                 /\ req'[r].pc = "done"
                 /\ req'[r].result = RowResult(orders'[req[r].id])
         /\ (Accepts(r) /\ req'[r].op = "updateStatus"
                /\ ~Stored(req'[r].id))
              => /\ req'[r].pc = "done"
                 /\ req'[r].result = NotFound
                 /\ orders' = orders]_vars

\* An order was moved to 'completed' and then back to 'pending', both calls
\* answering with the row.
C10_Witness ==
    \E r, q \in Req :
        /\ req[r].op = "updateStatus" /\ req[q].op = "updateStatus"
        /\ req[r].pc = "done" /\ req[q].pc = "done"
        /\ req[r].id = req[q].id
        /\ req[r].result.kind = "row" /\ req[q].result.kind = "row"
        /\ req[r].result.row.status = "completed"
        /\ req[q].result.row.status = "pending"
        /\ req[q].result.row.updated_at > req[r].result.row.updated_at
        /\ Stored(req[q].id)
        /\ orders[req[q].id] = req[q].result.row

---------------------------------------------------------------------------
(* Properties of the inventory module *)

\* The step in which the inventory service answers a call of `op`.
Answers(op) == calls' = calls + 1 /\ last'.op = op /\ last'.at = calls'

\* C11: partial-update law for catalog items and agents: update writes
\* exactly the fields present in the request and leaves every absent field
\* of the row, and every other row, unchanged; a subsequent get of the id
\* reflects the written values; a missing id yields not-found and no write.
C11_PartialUpdateWritesPresentFields ==
    [][Answers("update") =>
         LET id == last'.id
             dto == last'.dto
         IN IF ItemStored(id)
            THEN /\ inventory' = [inventory EXCEPT ![id] = ItemUpdated(@, dto)]
                 /\ last'.result = ItemResult(Returning(inventory'[id]))
                 /\ \A f \in InventoryFields \ dto.present :
                        inventory'[id][f] = inventory[id][f]
            ELSE /\ last'.result = NotFoundResult
                 /\ inventory' = inventory]_vars

\* C12: catalog create with an empty name fails with a ValidationError and
\* stores no item.
C12_EmptyNameRejected ==
    [][(Answers("create") /\ "name" \in last'.dto.present
            /\ last'.dto.name = << >>)
         => /\ last'.result = ValidationErrorResult
            /\ inventory' = inventory]_vars

---------------------------------------------------------------------------
(* Properties of catalogue search *)

\* C13: catalog keyword search with an empty query string fails with a
\* ValidationError; it never returns a result sequence, in particular not
\* the stored items.
C13_EmptyQueryRejected ==
    [][(Answers("search") /\ last'.query = << >>)
         => last'.result = ValidationErrorResult]_vars

\* C14: for every query, every limit and every store content,
\* hybridSearch(query, null, limit) returns exactly the same ordered result
\* as search(query, limit).
C14_HybridWithoutEmbeddingIsSearch ==
    [][/\ \A q \in Queries, n \in Limits :
            hybridSearch(q, Null, n) = search(q, n)
       /\ (Answers("hybridSearch") /\ IsNull(last'.embedding))
            => /\ last'.result.kind = "rows"
               /\ last'.result.rows \in search(last'.query, last'.limit)]_vars

\* hybridSearch without an embedding has returned two items, one of them a
\* hit by substring alone (rank 0).
C14_Witness ==
    /\ last.op = "hybridSearch"
    /\ IsNull(last.embedding)
    /\ last.result.kind = "rows"
    /\ Len(last.result.rows) = 2
    /\ last.result.rows[1].rank > 0
    /\ last.result.rows[2].rank = 0
    /\ ILike(last.result.rows[2].item.name, last.query)

\* C15: with an embedding supplied, hybridSearch returns the items that
\* match the keyword condition or have a non-null embedding, each scored
\* 0.4 x keyword-relevance + 0.6 x (1 - vector-distance) with a missing
\* signal counting as 0 and not excluding the item, ordered by descending
\* combined score and truncated to limit.
C15_HybridUnionScored ==
    [][(Answers("hybridSearch") /\ ~IsNull(last'.embedding))
         => LET q == last'.query
                v == ValueOf(last'.embedding)
                rows == last'.result.rows
                Expected == SearchHits(q) \cup Vec
                Score(id) ==
                    (IF id \in SearchHits(q)
                     THEN ts_rank(inventory[id], q) * 4 ELSE 0)
                    + (IF id \in Vec
                       THEN cosine_score(ValueOf(inventory[id].embedding), v) * 6
                       ELSE 0)
            IN /\ last'.result.kind = "rows"
               /\ Len(rows) = Min(last'.limit, Cardinality(Expected))
               /\ \A i \in 1..Len(rows) :
                    /\ rows[i].item.id \in Expected
                    /\ rows[i].item = Returning(inventory[rows[i].item.id])
                    /\ rows[i].hybrid_score = Score(rows[i].item.id)
               /\ \A i, j \in 1..Len(rows) :
                    /\ i < j => rows[i].hybrid_score >= rows[j].hybrid_score
                    /\ i # j => rows[i].item.id # rows[j].item.id
               /\ \A id \in Expected :
                    (\A i \in 1..Len(rows) : rows[i].item.id # id)
                        => \A i \in 1..Len(rows) :
                                rows[i].hybrid_score >= Score(id)]_vars

---------------------------------------------------------------------------
(* Properties of the drivers module *)

\* C16: for every reference point, radius and store content, findNearby
\* never returns an agent whose location is null and does not fail because
\* such agents exist, every returned distance_m is at most the requested
\* radius, the results are sorted ascending by distance, and with a status
\* filter every returned agent has that status.  (distance_m is in metres,
\* the radius of the model in tenths of a metre.)
C16_NearbyWithinRadiusSorted ==
    [][Answers("findNearby") =>
         /\ last'.result.kind = "rows"
         /\ LET rows == last'.result.rows
            IN /\ \A i \in DOMAIN rows :
                    /\ ~IsNull(rows[i].location)
                    /\ rows[i].distance_m * 10 <= last'.radius
                    /\ IsNull(last'.status)
                         \/ rows[i].status = ValueOf(last'.status)
               /\ \A i \in 1..(Len(rows) - 1) :
                    rows[i].distance_m <= rows[i + 1].distance_m]_vars

\* C17: distanceBetween is symmetric in its outcome: for all ids a and b,
\* distanceBetween(a, b) and distanceBetween(b, a) both return the same
\* distance_m or both fail with not-found; not-found occurs exactly when
\* either agent does not exist or either has a null location.
C17_DistanceSymmetric ==
    /\ \A a, b \in DriverIds :
         LET ab == distanceBetween(a, b)
             ba == distanceBetween(b, a)
             missing == \/ ~DriverStored(a) \/ ~DriverStored(b)
                        \/ IsNull(drivers[a].location)
                        \/ IsNull(drivers[b].location)
         IN /\ (ab = NotFoundResult) <=> missing
            /\ (ba = NotFoundResult) <=> missing
            /\ ~missing => /\ ab.kind = "distance" /\ ba.kind = "distance"
                           /\ ab.distance_m = ba.distance_m
                           /\ ab.distance_m \in Nat
    /\ last.op = "distanceBetween"
         => last.result = distanceBetween(last.id, last.other)

\* distanceBetween has answered not-found for an agent with a location and
\* one without, both stored.
C17_Witness ==
    /\ last.op = "distanceBetween"
    /\ last.result = NotFoundResult
    /\ DriverStored(last.id) /\ DriverStored(last.other)
    /\ ~IsNull(drivers[last.id].location)
    /\ IsNull(drivers[last.other].location)

\* C18: updateLocation(id, lat, lon) changes only the location column of
\* the agent with that id: its name and status, and every other agent row,
\* are unchanged; for a missing id it returns not-found and changes nothing.
C18_UpdateLocationFrame ==
    [][Answers("updateLocation") =>
         LET id == last'.id
         IN IF DriverStored(id)
            THEN /\ DOMAIN drivers' = DOMAIN drivers
                 /\ drivers'[id].location = Some(last'.point)
                 /\ drivers'[id].name = drivers[id].name
                 /\ drivers'[id].status = drivers[id].status
                 /\ drivers'[id].id = id
                 /\ \A other \in DOMAIN drivers \ {id} :
                        drivers'[other] = drivers[other]
                 /\ last'.result = ItemResult(drivers'[id])
            ELSE /\ drivers' = drivers
                 /\ last'.result = NotFoundResult]_vars

\* updateLocation has moved a busy agent that had another location, with
\* another agent stored beside it.
C18_Witness ==
    /\ last.op = "updateLocation"
    /\ last.result.kind = "item"
    /\ DriverStored(last.id)
    /\ drivers[last.id].status = "busy"
    /\ drivers[last.id].location = Some(ST_MakePoint(0, 0))
    /\ Cardinality(DOMAIN drivers) = 2

---------------------------------------------------------------------------
(* Properties of the telemetry module *)

\* C19: sensor readings are append-only: across any sequence of
\* TelemetryService operations (create, findAll, findLatest, aggregate,
\* fleetSummary, hypertableStats) every reading once stored remains stored
\* with all its fields unchanged; only create adds a row and no operation
\* updates or deletes one.
C19_ReadingsAppendOnly ==
    [][/\ Len(vehicle_telemetry') >= Len(vehicle_telemetry)
       /\ SubSeq(vehicle_telemetry', 1, Len(vehicle_telemetry)) = vehicle_telemetry
       /\ vehicle_telemetry' # vehicle_telemetry
            => /\ Answers("create")
               /\ Len(vehicle_telemetry') = Len(vehicle_telemetry) + 1
               /\ last'.result = ItemResult(vehicle_telemetry'[Len(vehicle_telemetry')])
       /\ \A op \in {"findAll", "findLatest", "aggregate", "fleetSummary",
                      "hypertableStats"} :
            Answers(op) => vehicle_telemetry' = vehicle_telemetry]_vars

\* create has stored a second reading of a vehicle at an instant it already
\* had a reading for, and both are stored.
C19_Witness ==
    /\ last.op = "create"
    /\ \E i, j \in DOMAIN vehicle_telemetry :
         /\ i < j
         /\ j = Len(vehicle_telemetry)
         /\ vehicle_telemetry[i].time = vehicle_telemetry[j].time
         /\ vehicle_telemetry[i].vehicle_id = vehicle_telemetry[j].vehicle_id
         /\ vehicle_telemetry[i].speed # vehicle_telemetry[j].speed

\* C20: aggregate counts a reading of the given source if and only if its
\* time t satisfies from <= t < to (the half-open window [from, to)); a
\* reading whose time equals `to` exactly is not included in any bucket.
C20_AggregateHalfOpen ==
    [][Answers("aggregate") =>
         LET v == ValueOf(last'.vehicle_id)
             w == last'.bucket
             counted == {i \in DOMAIN vehicle_telemetry :
                            /\ vehicle_telemetry[i].vehicle_id = v
                            /\ FromTime(last'.from) <= vehicle_telemetry[i].time
                            /\ vehicle_telemetry[i].time < ToTime(last'.to)}
             rows == last'.result.rows
         IN /\ \A k \in DOMAIN rows :
                 rows[k].readings =
                    Cardinality({i \in counted :
                        time_bucket(w, vehicle_telemetry[i].time) = rows[k].bucket})
            /\ \A i \in counted :
                 \E k \in DOMAIN rows :
                    rows[k].bucket = time_bucket(w, vehicle_telemetry[i].time)]_vars

\* C21: for every source, bucket width and window, the `readings` counts of
\* the buckets returned by aggregate sum to the number of stored readings of
\* that source whose time lies within the window [from, to); each such
\* reading is counted in exactly one bucket, readings of other sources are
\* not counted, and buckets are returned in descending order of bucket start.
C21_BucketCountsSumToWindow ==
    [][Answers("aggregate") =>
         LET v == ValueOf(last'.vehicle_id)
             rows == last'.result.rows
             inWindow == {i \in DOMAIN vehicle_telemetry :
                            /\ vehicle_telemetry[i].vehicle_id = v
                            /\ FromTime(last'.from) <= vehicle_telemetry[i].time
                            /\ vehicle_telemetry[i].time < ToTime(last'.to)}
         IN /\ SumOf(DOMAIN rows, [k \in DOMAIN rows |-> rows[k].readings])
                 = Cardinality(inWindow)
            /\ \A k \in DOMAIN rows : rows[k].vehicle_id = v
            /\ \A k \in 1..(Len(rows) - 1) : rows[k].bucket > rows[k + 1].bucket]_vars

\* The greatest time among the stored readings of a source.
NewestOf(v) ==
    CHOOSE t \in {vehicle_telemetry[i].time : i \in RowsOf(Some(v))} :
        \A i \in RowsOf(Some(v)) : vehicle_telemetry[i].time <= t

\* C22: findLatest(sourceId) returns a reading of that source whose time is
\* the maximum over all stored readings of that source, so after an ingest
\* whose time is strictly newer than every earlier reading of the source it
\* returns the just-inserted row; it returns not-found exactly when the
\* source has no reading.
C22_LatestIsNewest ==
    [][/\ Answers("findLatest") =>
            LET v == ValueOf(last'.vehicle_id)
            IN IF RowsOf(Some(v)) = {}
               THEN last'.result = NotFoundResult
               ELSE /\ last'.result.kind = "item"
                    /\ \E i \in RowsOf(Some(v)) :
                         last'.result.item = vehicle_telemetry[i]
                    /\ last'.result.item.time = NewestOf(v)
       /\ \A v \in Vehicles :
            (/\ Answers("create")
             /\ last'.vehicle_id = v
             /\ \A i \in RowsOf(Some(v)) :
                   vehicle_telemetry[i].time < last'.result.item.time)
              => findLatest(v)' = {last'.result}]_vars

\* findLatest has returned a reading that create stored after an older
\* reading of the same vehicle.
C22_Witness ==
    /\ last.op = "findLatest"
    /\ last.result = ItemResult(Reading(1, "v1", Some(4)))
    /\ Len(vehicle_telemetry) >= 2
    /\ vehicle_telemetry[Len(vehicle_telemetry)] = Reading(1, "v1", Some(4))
    /\ \A i \in 1..(Len(vehicle_telemetry) - 1) :
         /\ vehicle_telemetry[i].vehicle_id = "v1"
         /\ vehicle_telemetry[i].time < 1

\* C23: fleetSummary(windowHours) returns exactly one row per distinct source
\* that has at least one reading newer than now - windowHours, that row being
\* the source's most recent reading; sources with no reading in the window do
\* not appear.
C23_FleetSummaryLatestPerSource ==
    [][Answers("fleetSummary") =>
         LET rows == last'.result.rows
             active == {v \in Vehicles :
                          \E i \in RowsOf(Some(v)) :
                             vehicle_telemetry[i].time > now - last'.n}
         IN /\ {rows[k].vehicle_id : k \in DOMAIN rows} = active
            /\ Len(rows) = Cardinality(active)
            /\ \A k \in DOMAIN rows :
                 /\ rows[k].last_seen = NewestOf(rows[k].vehicle_id)
                 /\ \E i \in RowsOf(Some(rows[k].vehicle_id)) :
                      rows[k] = SummaryRow(vehicle_telemetry[i])]_vars

\* fleetSummary has returned v2 alone while v1 has a reading exactly
\* windowHours old.
C23_Witness ==
    /\ last.op = "fleetSummary"
    /\ Len(last.result.rows) = 1
    /\ last.result.rows[1].vehicle_id = "v2"
    /\ \E i \in DOMAIN vehicle_telemetry :
         /\ vehicle_telemetry[i].vehicle_id = "v1"
         /\ vehicle_telemetry[i].time = now - last.n

---------------------------------------------------------------------------
(* Properties of the three stores side by side *)

\* The step in which the orders service accepts a request; it is served in
\* the first free slot.
OrderAccepted == calls' = calls + 1 /\ last' = last /\ dreq' = dreq

\* The step in which the inventory service, or the drivers service, answers a
\* call of `op` within the step that accepts it.
ItemAnswers(op) == Answers(op) /\ "query" \in DOMAIN last'
DriverAnswers(op) == Answers(op) /\ "other" \in DOMAIN last' /\ dreq' = dreq

\* C24: for catalog items, agents and orders: after a successful delete(id),
\* get(id) returns not-found; delete on an id that does not exist returns
\* not-found (404, not a server error) and leaves the store unchanged.
C24_DeleteThenNotFound ==
    [][/\ \A r \in Req :
            /\ (OrderAccepted /\ Free(r) /\ req'[r].op = "remove"
                    /\ ~Stored(req'[r].id))
                 => /\ req'[r].pc = "done"
                    /\ req'[r].result = NotFound
                    /\ orders' = orders
            /\ (req[r].pc = "delete" /\ req'[r].pc = "done"
                    /\ req'[r].result = Deleted)
                 => /\ req[r].id \notin DOMAIN orders'
                    /\ findOne(req[r].id)' = NotFound
            /\ (OrderAccepted /\ Free(r) /\ req'[r].op = "findOne"
                    /\ ~Stored(req'[r].id))
                 => req'[r].result = NotFound
       /\ \A id \in 1..(nextId - 1) : ~Stored(id) => id \notin DOMAIN orders'
       /\ ItemAnswers("remove")
            => IF ItemStored(last'.id)
               THEN /\ last'.result.kind = "deleted"
                    /\ last'.id \notin DOMAIN inventory'
               ELSE /\ last'.result = NotFoundResult
                    /\ inventory' = inventory
       /\ (ItemAnswers("findOne") /\ ~ItemStored(last'.id))
            => last'.result = NotFoundResult
       /\ \A id \in 1..(nextItemId - 1) :
            ~ItemStored(id) => /\ id \notin DOMAIN inventory'
                               /\ InventoryFindOne(id)' = NotFoundResult
       /\ DriverAnswers("remove")
            => /\ ~DriverStored(last'.id)
               /\ last'.result = NotFoundResult
               /\ drivers' = drivers
       /\ \A r \in Req :
            /\ (dreq[r] = DIdle /\ dreq'[r].op = "remove")
                 => DriverStored(dreq'[r].id)
            /\ (dreq[r].pc = "delete" /\ dreq'[r] = DIdle
                    /\ last'.result = DeletedResult(dreq[r].id))
                 => /\ dreq[r].id \notin DOMAIN drivers'
                    /\ DriverFindOne(dreq[r].id)' = NotFoundResult
       /\ (DriverAnswers("findOne") /\ ~DriverStored(last'.id))
            => last'.result = NotFoundResult
       /\ \A id \in 1..(nextDriverId - 1) :
            ~DriverStored(id) => id \notin DOMAIN drivers']_vars

\* The agent stored at startup has been deleted and a get of its id has
\* answered not-found.
C24_Witness ==
    /\ last.op = "findOne"
    /\ "other" \in DOMAIN last
    /\ last.id = 1
    /\ last.result = NotFoundResult
    /\ ~DriverStored(1)
    /\ \A r \in Req : dreq[r] = DIdle

\* C25: identity is store-assigned, unique and immutable: across any
\* sequence of create, update, updateStatus, updateLocation and delete calls
\* on catalog items, agents and orders, no two creates of one resource return
\* the same id (also after deletions), and no operation changes the id of an
\* existing row.  Each create returns the value its sequence hands out, and
\* the sequences only advance.
C25_IdentityUniqueImmutable ==
    [][/\ nextId' >= nextId /\ nextItemId' >= nextItemId
       /\ nextDriverId' >= nextDriverId
       /\ \A id \in DOMAIN orders' :
            /\ orders'[id].id = id
            /\ id \notin DOMAIN orders => id = nextId /\ nextId' = nextId + 1
       /\ \A id \in DOMAIN inventory' :
            /\ inventory'[id].id = id
            /\ id \notin DOMAIN inventory
                 => id = nextItemId /\ nextItemId' = nextItemId + 1
       /\ \A id \in DOMAIN drivers' :
            /\ drivers'[id].id = id
            /\ id \notin DOMAIN drivers
                 => id = nextDriverId /\ nextDriverId' = nextDriverId + 1
       /\ \A r \in Req :
            /\ (OrderAccepted /\ Free(r) /\ req'[r].op = "create"
                    /\ req'[r].pc = "publish")
                 => /\ req'[r].order.id = nextId
                    /\ nextId' = nextId + 1
            /\ (req[r].op = "create" /\ req[r].pc # "done"
                    /\ req'[r].pc = "done" /\ req'[r].result.kind = "row")
                 => req'[r].result.row.id = req[r].order.id
       /\ (ItemAnswers("create") /\ last'.result.kind = "item")
            => /\ last'.result.item.id = nextItemId
               /\ nextItemId' = nextItemId + 1
       /\ (DriverAnswers("create") /\ last'.result.kind = "item")
            => /\ last'.result.item.id = nextDriverId
               /\ nextDriverId' = nextDriverId + 1]_vars

\* The order stored at startup has been deleted and a create has then
\* returned an order with the next id of the sequence.
C25_Witness ==
    /\ ~Stored(1)
    /\ Stored(2)
    /\ \E r \in Req :
         /\ req[r].op = "create" /\ req[r].pc = "done"
         /\ req[r].result.kind = "row"
         /\ req[r].result.row.id = 2
    /\ \E r \in Req : req[r].op = "remove" /\ req[r].result = Deleted

\* C28: for each order id and each agent id, under every interleaving of
\* concurrent remove calls on that id, at most one call returns the success
\* confirmation and every other call returns not-found; likewise an update or
\* updateStatus call racing with a remove returns either a row or not-found,
\* never an empty (undefined) result.  Ids are not reused, so at most one
\* remove of an id succeeds exactly when every remove that confirms has
\* deleted the row itself.
C28_RacingRemoves ==
    [][\A r \in Req :
         /\ (req[r].pc = "delete" /\ req'[r].pc = "done"
                /\ req'[r].result = Deleted)
              => Stored(req[r].id)
         /\ (req[r].op \in {"update", "updateStatus"} /\ req[r].pc # "done"
                /\ req'[r].pc = "done")
              => req'[r].result # UndefinedResult
         /\ (dreq[r].pc = "delete" /\ dreq'[r] = DIdle
                /\ last'.result = DeletedResult(dreq[r].id))
              => DriverStored(dreq[r].id)
         /\ (dreq[r].op = "update" /\ dreq'[r] = DIdle)
              => last'.result # UndefinedAnswer]_vars

(***************************************************************************)
(* Properties of driver status                                             *)
(***************************************************************************)

\* C26: every stored driver's status is one of online, offline and busy,
\* whatever create and update requests the HTTP layer has passed through.
C26_StatusAlwaysListed ==
    \A id \in DOMAIN drivers : drivers[id].status \in DriverStatuses

(***************************************************************************)
(* Properties of order placement with a consumer                           *)
(***************************************************************************)

\* C27: when create's own status write finishes, an order that a consumer
\* had already moved to processing, completed or failed is not set back to
\* queued.
C27_CreateNeverMovesBackward ==
    [][\A r \in Req :
          (/\ req[r].op = "create"
           /\ req[r].pc = "mark"
           /\ req'[r].pc = "done"
           /\ Stored(req[r].order.id)
           /\ orders[req[r].order.id].status \in WorkerStatuses)
          => orders'[req[r].order.id].status # "queued"]_vars

(***************************************************************************)
(* Properties of the broker channel                                        *)
(***************************************************************************)

\* The step in which the create in slot r answers.
CreateAnswers(r) ==
    /\ req'[r].op = "create"
    /\ req'[r].pc = "done"
    /\ \/ Accepts(r)
       \/ req[r].op = "create" /\ req[r].pc \in {"publish", "mark"}

ItemsOf(rows) == {rows[i].item.id : i \in DOMAIN rows}

\* C30: hybrid search keeps every keyword hit.  When hybridSearch answers a
\* query with an embedding and a limit no smaller than the number of stored
\* items, every item that search returns for the same query and limit is in
\* the answer, an item that matches only as a substring of its name and has
\* no embedding included.
C30_HybridKeepsKeywordHits ==
    [][(/\ Answers("hybridSearch")
        /\ ~IsNull(last'.embedding)
        /\ last'.limit >= Cardinality(DOMAIN inventory))
         => \A rows \in search(last'.query, last'.limit) :
                ItemsOf(rows) \subseteq ItemsOf(last'.result.rows)]_vars

============================================================================
